---- MODULE Spec2Model ----
(***************************************************************************)
(* Model of the analytics core of health-analytics: the daily aggregators  *)
(* (scripts/detailed_analysis.py, scripts/deep_analysis.py), the health    *)
(* score and the insight generators (scripts/generate_dashboard_data.py,   *)
(* scripts/deep_analysis.py).                                              *)
(*                                                                         *)
(* The functions are pure.  A behaviour draws one input in its initial     *)
(* state (fn = "input") and one action applies one function to it,         *)
(* leaving the input in arg and the returned value in ret.                 *)
(*                                                                         *)
(* Numbers.  Reading quantities are kept in quarters (QtyScale = 4),       *)
(* which are exactly representable, so float sums of them are exact.       *)
(* Where the result of a float computation depends on its rounding (the    *)
(* health score, the step trend, the distance and stand-hour means, the    *)
(* volume percentages) the floats are IEEE-754 doubles, computed operation *)
(* by operation.                                                           *)
(***************************************************************************)
EXTENDS Integers, Sequences, FiniteSets, TLC

VARIABLES fn, arg, ret

vars == <<fn, arg, ret>>

\* The value of ret before any function has returned.
NoResult == [no_result |-> TRUE]

\* Python's None (a record, so that it compares with the dicts returned).
None == [none |-> TRUE]

----------------------------------------------------------------------------
(* Generic helpers                                                          *)

Min(a, b) == IF a <= b THEN a ELSE b

Max(a, b) == IF a >= b THEN a ELSE b

\* dict.get(k, default) on a function whose DOMAIN is the set of keys.
DictGet(d, k, default) == IF k \in DOMAIN d THEN d[k] ELSE default

\* The dict d without the key k.
DictDrop(d, k) == [x \in (DOMAIN d) \ {k} |-> d[x]]

RECURSIVE SeqSum(_)
SeqSum(s) == IF s = <<>> THEN 0 ELSE Head(s) + SeqSum(Tail(s))

RECURSIVE SetSum(_, _)
\* Sum of f[x] over the finite set S.
SetSum(f, S) ==
    IF S = {} THEN 0
    ELSE LET x == CHOOSE y \in S : TRUE IN f[x] + SetSum(f, S \ {x})

\* All sequences over S of length 0..n.
SeqsUpTo(S, n) == UNION {[1..k -> S] : k \in 0..n}

\* Python round(x) of the non-negative rational n/d: nearest integer, ties
\* to the even integer.
PyRound(n, d) ==
    LET q == n \div d
        r == n % d
    IN  IF 2 * r > d \/ (2 * r = d /\ q % 2 = 1) THEN q + 1 ELSE q

\* Python int(x) of the non-negative rational n/d: truncation.
PyInt(n, d) == n \div d

----------------------------------------------------------------------------
(* Python floats                                                            *)
(*                                                                         *)
(* A float is an IEEE 754 double, held exactly: [neg, m, e] stands for     *)
(* (-1)^neg * m * 2^e, where m is a natural number of exactly 53 bits (or  *)
(* 0 with e = 0).  Natural numbers beyond the range of the integers are    *)
(* sequences of limbs in base 2^14, least significant first, without       *)
(* leading zero limbs.  Every operation computes the exact result and      *)
(* rounds it once to the nearest double, ties to the even mantissa, as the *)
(* hardware does.  Overflow, subnormals and NaN do not arise for the       *)
(* magnitudes handled here.                                                *)

LimbBits == 14

LimbBase == 16384

MantissaBits == 53

Limbs == 0..(LimbBase - 1)

\* Natural numbers as sequences of limbs.
BigNat == Seq(Limbs)

\* 2 ** n, by repeated squaring.
TwoToThe[n \in Nat] ==
    IF n = 0 THEN 1
    ELSE LET h == TwoToThe[n \div 2]
         IN  IF n % 2 = 0 THEN h * h ELSE 2 * h * h

\* The number of bits of the natural number n.
IntBitLen[n \in Nat] ==
    IF n < 2 THEN n
    ELSE IF n >= 128 THEN 7 + IntBitLen[n \div 128]
    ELSE IF n >= 8 THEN 3 + IntBitLen[n \div 8]
    ELSE 1 + IntBitLen[n \div 2]

Limb(a, i) == IF 1 <= i /\ i <= Len(a) THEN a[i] ELSE 0

\* a without its leading zero limbs.
BigNorm[a \in BigNat] ==
    IF a = <<>> THEN a
    ELSE IF a[Len(a)] = 0 THEN BigNorm[SubSeq(a, 1, Len(a) - 1)]
    ELSE a

\* The limbs of the natural number n.
BigOf[n \in Nat] ==
    BigNorm[<<n % LimbBase, (n \div LimbBase) % LimbBase,
              n \div (LimbBase * LimbBase)>>]

\* The integer held by a number of at most two limbs.
BigToInt(a) ==
    IF a = <<>> THEN 0
    ELSE IF Len(a) = 1 THEN a[1]
    ELSE a[1] + LimbBase * a[2]

BigBitLen(a) ==
    IF a = <<>> THEN 0 ELSE LimbBits * (Len(a) - 1) + IntBitLen[a[Len(a)]]

BigIsOdd(a) == a # <<>> /\ a[1] % 2 = 1

BigAddFrom[a \in BigNat, b \in BigNat, i \in Nat, carry \in Nat] ==
    IF i > Len(a) /\ i > Len(b) THEN BigOf[carry]
    ELSE LET t == Limb(a, i) + Limb(b, i) + carry
         IN  <<t % LimbBase>> \o BigAddFrom[a, b, i + 1, t \div LimbBase]

\* a + b
BigAdd[a \in BigNat, b \in BigNat] == BigAddFrom[a, b, 1, 0]

BigSubFrom[a \in BigNat, b \in BigNat, i \in Nat, borrow \in Nat] ==
    IF i > Len(a) THEN <<>>
    ELSE LET t == a[i] - Limb(b, i) - borrow
         IN  <<IF t < 0 THEN t + LimbBase ELSE t>>
                 \o BigSubFrom[a, b, i + 1, IF t < 0 THEN 1 ELSE 0]

\* a - b for a >= b.
BigSub[a \in BigNat, b \in BigNat] == BigNorm[BigSubFrom[a, b, 1, 0]]

BigCmpFrom[a \in BigNat, b \in BigNat, i \in Nat] ==
    IF i = 0 THEN 0
    ELSE IF a[i] > b[i] THEN 1
    ELSE IF a[i] < b[i] THEN -1
    ELSE BigCmpFrom[a, b, i - 1]

\* -1, 0 or 1 as a < b, a = b or a > b.
BigCmp[a \in BigNat, b \in BigNat] ==
    IF Len(a) > Len(b) THEN 1
    ELSE IF Len(a) < Len(b) THEN -1
    ELSE BigCmpFrom[a, b, Len(a)]

BigMulFrom[a \in BigNat, k \in Nat, i \in Nat, carry \in Nat] ==
    IF i > Len(a) THEN BigOf[carry]
    ELSE LET t == a[i] * k + carry
         IN  <<t % LimbBase>> \o BigMulFrom[a, k, i + 1, t \div LimbBase]

\* a * k for a limb k.
BigMulSmall[a \in BigNat, k \in Limbs] ==
    IF k = 0 THEN <<>> ELSE BigMulFrom[a, k, 1, 0]

\* a * 2^k
BigShl[a \in BigNat, k \in Nat] ==
    LET Shifted(s, p, q) ==
            BigNorm[[i \in 1..(Len(a) + s + 1) |->
                        (Limb(a, i - s) % q) * p + Limb(a, i - s - 1) \div q]]
        ByPower(p) == Shifted(k \div LimbBits, p, LimbBase \div p)
    IN  ByPower(TwoToThe[k % LimbBits])

\* floor(a / 2^k)
BigShr[a \in BigNat, k \in Nat] ==
    LET Shifted(s, p, q) ==
            BigNorm[[i \in 1..Max(Len(a) - s, 0) |->
                        Limb(a, i + s) \div p + (Limb(a, i + s + 1) % p) * q]]
        ByPower(p) == Shifted(k \div LimbBits, p, LimbBase \div p)
    IN  ByPower(TwoToThe[k % LimbBits])

\* a / 2^k rounded to the nearest integer, ties to even: the quotient q,
\* raised by one when the remainder compares (c) above the half, or equal
\* to it with q odd.
BigRoundShr[a \in BigNat, k \in Nat] ==
    IF k = 0 THEN a
    ELSE LET Rounded(q, c) ==
                 IF c > 0 \/ (c = 0 /\ BigIsOdd(q)) THEN BigAdd[q, <<1>>]
                 ELSE q
             Compared(q) ==
                 Rounded(q, BigCmp[BigSub[a, BigShl[q, k]],
                                   BigShl[<<1>>, k - 1]])
         IN  Compared(BigShr[a, k])

\* The largest digit below or at the estimate q whose multiple of d is at
\* most t, with the remainder that it leaves.
BigDigit[t \in BigNat, d \in BigNat, q \in Limbs] ==
    LET Tried(p) ==
            IF BigCmp[p, t] > 0 THEN BigDigit[t, d, q - 1]
            ELSE [digit |-> q, r |-> BigSub[t, p]]
    IN  Tried(BigMulSmall[d, q])

\* Long division of a by d from limb i of a downwards, with r the remainder
\* and q the quotient so far; d has its top bit set in its top limb, so the
\* quotient of the two top limbs of the remainder by the top limb of d
\* estimates each digit from above.
BigLongDiv[a \in BigNat, d \in BigNat, i \in Nat, r \in BigNat, q \in BigNat] ==
    IF i = 0 THEN [q |-> BigNorm[q], r |-> r]
    ELSE LET n == Len(d)
             Stepped(step) ==
                 BigLongDiv[a, d, i - 1, step.r, <<step.digit>> \o q]
             Estimated(t) ==
                 Stepped(BigDigit[t, d,
                                  Min((Limb(t, n + 1) * LimbBase + Limb(t, n))
                                          \div d[n],
                                      LimbBase - 1)])
         IN  Estimated(BigNorm[<<a[i]>> \o r])

\* Quotient and remainder of a by d, for d with LimbBits * Len(d) bits: the
\* top limbs of a that stay below d start the remainder.
BigDivMod[a \in BigNat, d \in BigNat] ==
    LET n == Len(a)
        k == Min(n, Len(d))
        From(j) == BigLongDiv[a, d, n - j, SubSeq(a, n - j + 1, n), <<>>]
    IN  From(IF BigCmp[SubSeq(a, n - k + 1, n), d] < 0 THEN k ELSE k - 1)

Float == [neg : BOOLEAN, m : BigNat, e : Int]

FloatZero == [neg |-> FALSE, m |-> <<>>, e |-> 0]

\* The double nearest to (-1)^neg * n * 2^e: n loses its bits beyond the
\* 53rd, and one more when the rounding carries into a 54th.
FloatRound[neg \in BOOLEAN, n \in BigNat, e \in Int] ==
    IF n = <<>> THEN FloatZero
    ELSE LET Carried(q, drop) ==
                 IF BigBitLen(q) > MantissaBits
                 THEN [neg |-> neg, m |-> BigShr[q, 1], e |-> e + drop + 1]
                 ELSE [neg |-> neg, m |-> q, e |-> e + drop]
             Dropping(drop) ==
                 IF drop <= 0
                 THEN [neg |-> neg, m |-> BigShl[n, -drop], e |-> e + drop]
                 ELSE Carried(BigRoundShr[n, drop], drop)
         IN  Dropping(BigBitLen(n) - MantissaBits)

\* float(n) of an integer n.
FloatOf[n \in Int] == FloatRound[n < 0, BigOf[IF n < 0 THEN -n ELSE n], 0]

FloatNeg[x \in Float] == IF x.m = <<>> THEN x ELSE [x EXCEPT !.neg = ~x.neg]

\* x + y: the mantissas a and b brought to the common exponent e and
\* added, or the smaller taken from the larger (c compares them) under the
\* sign of the larger.
FloatAdd[x \in Float, y \in Float] ==
    IF x.m = <<>> THEN y
    ELSE IF y.m = <<>> THEN x
    ELSE LET Combined(e, a, b, c) ==
                 FloatRound[IF x.neg = y.neg \/ c >= 0 THEN x.neg ELSE y.neg,
                            IF x.neg = y.neg THEN BigAdd[a, b]
                            ELSE IF c >= 0 THEN BigSub[a, b]
                            ELSE BigSub[b, a],
                            e]
             Compared(e, a, b) == Combined(e, a, b, BigCmp[a, b])
             Aligned(e) ==
                 Compared(e, BigShl[x.m, x.e - e], BigShl[y.m, y.e - e])
         IN  Aligned(Min(x.e, y.e))

\* x - y
FloatSub[x \in Float, y \in Float] == FloatAdd[x, FloatNeg[y]]

\* x < y
FloatLess[x \in Float, y \in Float] == FloatSub[x, y].neg

\* x * k for an integer k below 2^14 in magnitude.
FloatMulInt[x \in Float, k \in Int] ==
    FloatRound[x.neg # (k < 0), BigMulSmall[x.m, IF k < 0 THEN -k ELSE k], x.e]

\* a * b: a times each limb of b from the i-th on, each partial product one
\* limb higher than the one before.
BigMulLimbs[a \in BigNat, b \in BigNat, i \in Nat] ==
    IF i > Len(b) THEN <<>>
    ELSE BigAdd[BigMulSmall[a, b[i]],
                BigShl[BigMulLimbs[a, b, i + 1], LimbBits]]

BigMul[a \in BigNat, b \in BigNat] == BigMulLimbs[a, b, 1]

\* x * y
FloatMul[x \in Float, y \in Float] ==
    FloatRound[x.neg # y.neg, BigMul[x.m, y.m], x.e + y.e]

\* x / y for y # 0: the quotient of the mantissas to 55 or 56 bits, with a
\* last bit that records a remainder.
FloatDiv[x \in Float, y \in Float] ==
    IF x.m = <<>> THEN FloatZero
    ELSE LET Quotient(d) ==
                 FloatRound[x.neg # y.neg,
                            BigAdd[BigShl[d.q, 1],
                                   IF d.r = <<>> THEN <<>> ELSE <<1>>],
                            x.e - y.e - 56]
         IN  Quotient(BigDivMod[BigShl[x.m, 58], BigShl[y.m, 3]])

\* a / b of two integers, b # 0.
IntDiv[a \in Int, b \in Int] == FloatDiv[FloatOf[a], FloatOf[b]]

\* round(x * scale) for a non-negative x: the integer nearest to
\* x * scale, ties to even; with scale 10 the tenths of round(x, 1).
FloatRoundTo[x \in Float, scale \in Limbs] ==
    LET Scaled(n) ==
            BigToInt(IF x.e >= 0 THEN BigShl[n, x.e]
                     ELSE BigRoundShr[n, -x.e])
    IN  Scaled(BigMulSmall[x.m, scale])

\* sum(xs) of a list of floats: added from left to right, each addition
\* rounded.
RECURSIVE FloatSum(_)
FloatSum(xs) ==
    IF xs = <<>> THEN FloatZero
    ELSE FloatAdd[FloatSum(SubSeq(xs, 1, Len(xs) - 1)), xs[Len(xs)]]

\* The float with the decimal text n/100, as round(total, 2) returns it.
Hundredths(n) == IntDiv[n, 100]

\* round(sum(xs) / len(xs), 1) in tenths, for xs in hundredths.
RoundedMean(xs) ==
    FloatRoundTo[FloatDiv[FloatSum([i \in 1..Len(xs) |-> Hundredths(xs[i])]),
                          FloatOf[Len(xs)]], 10]

----------------------------------------------------------------------------
(* calculate_health_score, scripts/generate_dashboard_data.py               *)

\* weights = {'steps': 25, 'exercise': 25, 'stand': 20, 'resting_hr': 15,
\*            'hrv': 15}
weights == [steps |-> 25, exercise |-> 25, stand |-> 20,
            resting_hr |-> 15, hrv |-> 15]

\* The float with the decimal text n/10: 0.5 for 5, 12.5 for 125.
Tenths(n) == IntDiv[n, 10]

\* The doubles the decimal literals of calculate_health_score denote: the
\* mantissa m, in limbs, and the exponent e of the double nearest to the
\* decimal, m * 2^e.
Literal ==
    "1.2" :> [neg |-> FALSE, m |-> <<13107, 3276, 13107, 1228>>, e |-> -52] @@
    "1.5" :> [neg |-> FALSE, m |-> <<0, 0, 0, 1536>>, e |-> -52] @@
    "0.9" :> [neg |-> FALSE, m |-> <<3277, 13107, 3276, 1843>>, e |-> -53] @@
    "0.8" :> [neg |-> FALSE, m |-> <<6554, 9830, 6553, 1638>>, e |-> -53] @@
    "0.7" :> [neg |-> FALSE, m |-> <<9830, 6553, 9830, 1433>>, e |-> -53] @@
    "0.6" :> [neg |-> FALSE, m |-> <<13107, 3276, 13107, 1228>>, e |-> -53] @@
    "0.5" :> [neg |-> FALSE, m |-> <<0, 0, 0, 1024>>, e |-> -53] @@
    "0.4" :> [neg |-> FALSE, m |-> <<6554, 9830, 6553, 1638>>, e |-> -54]

\* min(x, y) of two floats.
FloatMin(x, y) == IF FloatLess[y, x] THEN y ELSE x

\* Steps: avgs.get('steps', 0); min(steps / 10000, 1.2) * 25 when > 0.
StepsScore_defaultGoal(avgs) ==
    LET steps == DictGet(avgs, "steps", 10000)
    IN  IF steps > 0
        THEN FloatMulInt[FloatMin(IntDiv[steps, 10000], Literal["1.2"]),
                         weights.steps]
        ELSE FloatZero

StepsScore(avgs) ==
    LET steps == DictGet(avgs, "steps", 0)
    IN  IF steps > 0
        THEN FloatMulInt[FloatMin(IntDiv[steps, 10000], Literal["1.2"]),
                         weights.steps]
        ELSE FloatZero

\* Exercise: avgs.get('exercise_minutes', 0); min(exercise / 30, 1.5) * 25.
ExerciseScore(avgs) ==
    LET exercise == DictGet(avgs, "exercise_minutes", 0)
    IN  IF exercise > 0
        THEN FloatMulInt[FloatMin(IntDiv[exercise, 30], Literal["1.5"]),
                         weights.exercise]
        ELSE FloatZero

\* Stand: avgs.get('stand_hours', 0), a float with one decimal given in
\* tenths of an hour; min(stand / 12, 1.2) * 20.
StandScore(avgs) ==
    LET stand10 == DictGet(avgs, "stand_hours", 0)
    IN  IF stand10 > 0
        THEN FloatMulInt[FloatMin(FloatDiv[Tenths(stand10), FloatOf[12]],
                                  Literal["1.2"]),
                         weights.stand]
        ELSE FloatZero

\* Resting HR bands: <= 60 full, <= 70 0.8, <= 80 0.6, else 0.4.
RestingHrScore_strictBands(avgs) ==
    LET rhr == DictGet(avgs, "resting_hr", 0)
    IN  IF rhr > 0
        THEN IF rhr < 60 THEN FloatOf[weights.resting_hr]
             ELSE IF rhr < 70 THEN FloatMulInt[Literal["0.8"], weights.resting_hr]
             ELSE IF rhr < 80 THEN FloatMulInt[Literal["0.6"], weights.resting_hr]
             ELSE FloatMulInt[Literal["0.4"], weights.resting_hr]
        ELSE FloatZero

RestingHrScore(avgs) ==
    LET rhr == DictGet(avgs, "resting_hr", 0)
    IN  IF rhr > 0
        THEN IF rhr <= 60 THEN FloatOf[weights.resting_hr]
             ELSE IF rhr <= 70 THEN FloatMulInt[Literal["0.8"], weights.resting_hr]
             ELSE IF rhr <= 80 THEN FloatMulInt[Literal["0.6"], weights.resting_hr]
             ELSE FloatMulInt[Literal["0.4"], weights.resting_hr]
        ELSE FloatZero

\* HRV bands: >= 50 full, >= 40 0.9, >= 30 0.7, else 0.5.
HrvScore(avgs) ==
    LET hrv == DictGet(avgs, "hrv", 0)
    IN  IF hrv > 0
        THEN IF hrv >= 50 THEN FloatOf[weights.hrv]
             ELSE IF hrv >= 40 THEN FloatMulInt[Literal["0.9"], weights.hrv]
             ELSE IF hrv >= 30 THEN FloatMulInt[Literal["0.7"], weights.hrv]
             ELSE FloatMulInt[Literal["0.5"], weights.hrv]
        ELSE FloatZero

\* The component scores by breakdown key.
ComponentScores(avgs) ==
    [steps |-> StepsScore(avgs), exercise |-> ExerciseScore(avgs),
     stand |-> StandScore(avgs), resting_hr |-> RestingHrScore(avgs),
     hrv |-> HrvScore(avgs)]

\* The averages key each breakdown key is read from.
AvgKeyOf == [steps |-> "steps", exercise |-> "exercise_minutes",
             stand |-> "stand_hours", resting_hr |-> "resting_hr",
             hrv |-> "hrv"]

BreakdownKeys == {"steps", "exercise", "stand", "resting_hr", "hrv"}

\* round(x, 1) of a float, returned in tenths of a point.
Round1(x) == FloatRoundTo[x, 10]

\* breakdown[k] = round(k_score, 1), set only inside "if metric > 0".
BreakdownOf(avgs, comp) ==
    LET present == {k \in BreakdownKeys : DictGet(avgs, AvgKeyOf[k], 0) > 0}
    IN  [k \in present |-> Round1(comp[k])]

Breakdown(avgs) == BreakdownOf(avgs, ComponentScores(avgs))

\* score after the five "score += ..." statements, in their order.
SumOf(comp) ==
    FloatAdd[FloatAdd[FloatAdd[FloatAdd[comp.steps, comp.exercise],
                               comp.stand],
                      comp.resting_hr],
             comp.hrv]

ScoreSum(avgs) == SumOf(ComponentScores(avgs))

\* final_score = min(round(score), 100)
FinalScore_noCap(score) == FloatRoundTo[score, 1]

FinalScore(score) == Min(FloatRoundTo[score, 1], 100)

\* The level chosen by the if/elif chain on final_score.
LevelOf(final_score) ==
    IF final_score >= 85 THEN "excellent"
    ELSE IF final_score >= 70 THEN "good"
    ELSE IF final_score >= 55 THEN "moderate"
    ELSE "needs_work"

\* calculate_health_score(stats), with avgs = stats.get('averages', {}).
calculate_health_score(avgs) ==
    LET Result(final_score, breakdown) ==
            [score |-> final_score,
             level |-> LevelOf(final_score),
             breakdown |-> breakdown,
             max_score |-> 100]
        Scored(comp) == Result(FinalScore(SumOf(comp)), BreakdownOf(avgs, comp))
    IN  Scored(ComponentScores(avgs))

\* Input bounds of the health-score specification.
StepsUnit == 2500
MaxStepsK == 5
ExerciseUnit == 15
MaxExerciseK == 4
StandUnit10 == 30
MaxStandK == 5

RhrValues == {0, 55, 60, 61, 70, 71, 80, 81}
HrvValues == {0, 25, 29, 30, 39, 40, 49, 50, 55}

AvgKeys == {"steps", "exercise_minutes", "stand_hours", "resting_hr", "hrv"}

\* Marks a key left out of a mapping while the inputs are enumerated.
Absent == -1

\* A value of V, or no entry at all.
Opt(V) == V \cup {Absent}

\* The averages dict holding the given entries.
MkAverages(s, e, d, r, h) ==
    LET all == [steps |-> s, exercise_minutes |-> e, stand_hours |-> d,
                resting_hr |-> r, hrv |-> h]
    IN  [k \in {x \in AvgKeys : all[x] # Absent} |-> all[k]]

\* Averages whose contributions, or their sum, lie halfway between two
\* rounded values: steps 20 and 8020 (0.05 and 20.05 points), exercise 5
\* with stand 2.0 (7.5 points), exercise 20 with stand 0.5.
HalfwayAverages ==
    {MkAverages(s, e, d, r, h) :
        s \in Opt({20, 60, 8020}), e \in Opt({5, 20}), d \in Opt({5, 20}),
        r \in Opt({70}), h \in {Absent}}

\* Every averages mapping: any subset of the five keys, each with a
\* non-negative value (stand_hours in tenths of an hour).
AveragesInputs ==
    {MkAverages(s, e, d, r, h) :
        s \in Opt({StepsUnit * k : k \in 0..MaxStepsK}),
        e \in Opt({ExerciseUnit * k : k \in 0..MaxExerciseK}),
        d \in Opt({StandUnit10 * k : k \in 0..MaxStandK}),
        r \in Opt(RhrValues),
        h \in Opt(HrvValues)}
    \cup HalfwayAverages

InitScore == fn = "input" /\ arg \in AveragesInputs /\ ret = NoResult

CalculateHealthScore ==
    /\ fn = "input"
    /\ fn' = "calculate_health_score"
    /\ ret' = calculate_health_score(arg)
    /\ UNCHANGED arg

NextScore == CalculateHealthScore

SpecScore == InitScore /\ [][NextScore]_vars

----------------------------------------------------------------------------
(* Daily aggregation, detailed path: scripts/detailed_analysis.py           *)
(*                                                                         *)
(* A raw day maps metric names to their lists of readings.  A reading is a *)
(* record; its qty, when it has one, is a quantity in quarters             *)
(* (qty = 6 stands for 1.5).                                               *)

QtyScale == 4

\* sum(float(d.get('qty', 0)) for d in data), in quarters.
RECURSIVE SumQty(_)
SumQty(data) ==
    IF data = <<>> THEN 0
    ELSE DictGet(Head(data), "qty", 0) + SumQty(Tail(data))

\* extract_all_metrics: name -> {units, count, data} for every metric of the
\* day's export.
extract_all_metrics(raw) ==
    [name \in DOMAIN raw |-> [count |-> Len(raw[name]), data |-> raw[name]]]

\* The source metric of each totals key of calculate_totals.
TotalsSource ==
    [steps |-> "step_count",
     active_energy_kcal |-> "active_energy",
     exercise_minutes |-> "apple_exercise_time",
     stand_hours |-> "apple_stand_hour",
     distance_km |-> "walking_running_distance",
     flights |-> "flights_climbed",
     daylight_minutes |-> "time_in_daylight"]

TotalsKeys == DOMAIN TotalsSource

\* int(total) for every key but distance_km, which is round(total, 2) and is
\* returned in hundredths.
TotalOf_rounded(key, data) ==
    IF key = "distance_km" THEN PyRound(SumQty(data) * 100, QtyScale)
    ELSE PyRound(SumQty(data), QtyScale)

TotalOf(key, data) ==
    IF key = "distance_km" THEN PyRound(SumQty(data) * 100, QtyScale)
    ELSE PyInt(SumQty(data), QtyScale)

\* calculate_totals(metrics): one "if name in metrics" block per key.
calculate_totals_zeroDefault(metrics) ==
    [key \in TotalsKeys |->
        IF TotalsSource[key] \in DOMAIN metrics
        THEN TotalOf(key, metrics[TotalsSource[key]].data)
        ELSE 0]

calculate_totals(metrics) ==
    [key \in {k \in TotalsKeys : TotalsSource[k] \in DOMAIN metrics} |->
        TotalOf(key, metrics[TotalsSource[key]].data)]

\* The source metric of each key of get_key_readings.
ReadingsSource ==
    [resting_hr |-> "resting_heart_rate",
     vo2_max |-> "vo2_max",
     hrv_avg |-> "heart_rate_variability",
     walking_hr |-> "walking_heart_rate_average",
     blood_oxygen |-> "blood_oxygen_saturation"]

ReadingsKeys == DOMAIN ReadingsSource

\* resting_hr and walking_hr: int of the last reading; vo2_max: round(last,
\* 1), in tenths; hrv_avg and blood_oxygen: int of the mean.
ReadingOf(key, data) ==
    LET last == DictGet(data[Len(data)], "qty", 0)
    IN  CASE key \in {"resting_hr", "walking_hr"} -> PyInt(last, QtyScale)
          [] key = "vo2_max" -> PyRound(last * 10, QtyScale)
          [] OTHER -> PyInt(SumQty(data), Len(data) * QtyScale)

\* get_key_readings(metrics): a key is set when its metric is present with
\* a non-empty data list.
get_key_readings(metrics) ==
    [key \in {k \in ReadingsKeys :
                 /\ ReadingsSource[k] \in DOMAIN metrics
                 /\ metrics[ReadingsSource[k]].data # <<>>} |->
        ReadingOf(key, metrics[ReadingsSource[key]].data)]

\* Smallest and largest element of a non-empty sequence of numbers.
SeqMin(s) == CHOOSE x \in {s[i] : i \in 1..Len(s)} :
                \A j \in 1..Len(s) : x <= s[j]

SeqMax(s) == CHOOSE x \in {s[i] : i \in 1..Len(s)} :
                \A j \in 1..Len(s) : x >= s[j]

RECURSIVE QtyValues_zeroFill(_)
QtyValues_zeroFill(data) ==
    IF data = <<>> THEN <<>>
    ELSE <<DictGet(Head(data), "qty", 0)>> \o QtyValues_zeroFill(Tail(data))

RECURSIVE QtyValues(_)
\* hr_values = [float(d.get('qty', 0)) for d in hr_data if 'qty' in d]
QtyValues(data) ==
    IF data = <<>> THEN <<>>
    ELSE IF "qty" \in DOMAIN Head(data)
         THEN <<Head(data).qty>> \o QtyValues(Tail(data))
         ELSE QtyValues(Tail(data))

\* get_heart_rate_stats(metrics)
get_heart_rate_stats(metrics) ==
    IF "heart_rate" \notin DOMAIN metrics \/ metrics["heart_rate"].data = <<>>
    THEN None
    ELSE LET hr_values == QtyValues(metrics["heart_rate"].data)
         IN  IF hr_values = <<>> THEN None
             ELSE [count |-> Len(hr_values),
                   min |-> PyInt(SeqMin(hr_values), QtyScale),
                   max |-> PyInt(SeqMax(hr_values), QtyScale),
                   avg |-> PyInt(SeqSum(hr_values), Len(hr_values) * QtyScale)]

\* The record load_date_range stores for a day: none when the export has
\* no metric ("if metrics:").
DetailedDay(raw) ==
    LET metrics == extract_all_metrics(raw)
    IN  IF DOMAIN metrics = {} THEN None
        ELSE [totals |-> calculate_totals(metrics),
              readings |-> get_key_readings(metrics),
              hr_stats |-> get_heart_rate_stats(metrics)]

----------------------------------------------------------------------------
(* Daily aggregation, deep-analysis path: scripts/deep_analysis.py          *)

\* val = p.get('Avg', p.get('qty', 0)) for heart_rate, p.get('qty', 0) for
\* every other metric.
PointValue(name, p) ==
    IF name = "heart_rate" THEN DictGet(p, "Avg", DictGet(p, "qty", 0))
    ELSE DictGet(p, "qty", 0)

RECURSIVE TruthyValues(_, _)
\* The values load_all_health_data appends for a metric: "if val:" drops 0.
TruthyValues(name, points) ==
    IF points = <<>> THEN <<>>
    ELSE LET val == PointValue(name, Head(points))
         IN  IF val # 0 THEN <<val>> \o TruthyValues(name, Tail(points))
             ELSE TruthyValues(name, Tail(points))

\* load_all_health_data for one export file: metric name -> list of values;
\* a metric with no truthy value gets no key.
load_all_health_data(raw) ==
    [name \in {n \in DOMAIN raw : TruthyValues(n, raw[n]) # <<>>} |->
        TruthyValues(name, raw[name])]

\* The source metric of each summed key of calculate_daily_stats.
DeepSumSource ==
    [steps |-> "step_count",
     distance_km |-> "walking_running_distance",
     flights |-> "flights_climbed",
     exercise_min |-> "apple_exercise_time",
     active_cal |-> "active_energy",
     daylight_min |-> "time_in_daylight",
     swim_distance |-> "swimming_distance",
     swim_strokes |-> "swimming_stroke_count"]

DeepSumKeys == DOMAIN DeepSumSource

\* The source metric of each key set under "if <list>:".
DeepPointSource ==
    [hr_avg |-> "heart_rate", hr_min |-> "heart_rate", hr_max |-> "heart_rate",
     resting_hr |-> "resting_heart_rate",
     hrv_avg |-> "heart_rate_variability",
     vo2_max |-> "vo2_max",
     walk_speed |-> "walking_speed",
     step_length |-> "walking_step_length",
     walk_asymmetry |-> "walking_asymmetry_percentage",
     spo2_avg |-> "blood_oxygen_saturation",
     spo2_min |-> "blood_oxygen_saturation",
     resp_rate |-> "respiratory_rate"]

DeepPointKeys == DOMAIN DeepPointSource

\* statistics.mean(xs) as the exact fraction <<sum, count>> of quarters.
Mean(xs) == <<SeqSum(xs), Len(xs)>>

\* d['stand_hours'] = len([x for x in metrics.get('apple_stand_hour', [])
\*                         if x >= 1])
DeepStandHours(metrics) ==
    LET xs == DictGet(metrics, "apple_stand_hour", <<>>)
    IN  Cardinality({i \in 1..Len(xs) : xs[i] >= 1 * QtyScale})

\* d[key] = sum(metrics.get(source, [0])), in quarters.
DeepSum(metrics, key) == SeqSum(DictGet(metrics, DeepSumSource[key], <<0>>))

\* The point values with the last resting heart rate of the day.
DeepPoint_restingLast(key, xs) ==
    CASE key \in {"hr_min", "spo2_min"} -> SeqMin(xs)
      [] key = "hr_max" -> SeqMax(xs)
      [] key = "resting_hr" -> xs[Len(xs)]
      [] key = "vo2_max" -> xs[Len(xs)]
      [] OTHER -> Mean(xs)

\* hr_min, spo2_min, hr_max; resting_hr = rhr[0]; vo2_max = vo2[-1]; the
\* mean for every other key.
DeepPoint(key, xs) ==
    CASE key \in {"hr_min", "spo2_min"} -> SeqMin(xs)
      [] key = "hr_max" -> SeqMax(xs)
      [] key = "resting_hr" -> xs[1]
      [] key = "vo2_max" -> xs[Len(xs)]
      [] OTHER -> Mean(xs)

\* The body of calculate_daily_stats for one date.
DailyStatsOf(metrics) ==
    LET pointKeys == {k \in DeepPointKeys :
                         DictGet(metrics, DeepPointSource[k], <<>>) # <<>>}
    IN  [key \in DeepSumKeys \cup {"stand_hours"} \cup pointKeys |->
            IF key = "stand_hours" THEN DeepStandHours(metrics)
            ELSE IF key \in DeepSumKeys THEN DeepSum(metrics, key)
            ELSE DeepPoint(key, metrics[DeepPointSource[key]])]

\* calculate_daily_stats(load_all_health_data()) for one export file: the
\* date has an entry only when the loader appended a value for it.
DeepDay(raw) ==
    LET metrics == load_all_health_data(raw)
    IN  IF DOMAIN metrics = {} THEN None ELSE DailyStatsOf(metrics)

----------------------------------------------------------------------------
(* generate_insights, scripts/generate_dashboard_data.py                    *)
(*                                                                         *)
(* data is the sequence of the loaded days in date order (the order of     *)
(* sorted(data.keys())); a card is modelled by its type and title.         *)

Card(type, title) == [type |-> type, title |-> title]

\* s[-n:] for n > 0.
LastN(s, n) == SubSeq(s, Max(1, Len(s) - n + 1), Len(s))

\* recent_dates = sorted_dates[-7:]
RecentDays(data) == LastN(data, 7)

\* prior_dates = sorted_dates[-14:-7] if len(sorted_dates) >= 14 else []
PriorDays_noMinimum(data) ==
    SubSeq(data, Max(1, Len(data) - 13), Len(data) - 7)

PriorDays(data) ==
    IF Len(data) >= 14 THEN SubSeq(data, Len(data) - 13, Len(data) - 7)
    ELSE <<>>

\* [data[d]['totals'].get('steps', 0) for d in dates]
StepsOf(days) == [i \in 1..Len(days) |-> DictGet(days[i].totals, "steps", 0)]

\* sum(xs) / len(xs) of a non-empty list of ints: the sum is exact, the
\* division rounds to a float.
FloatMean(xs) == IntDiv[SeqSum(xs), Len(xs)]

\* change = ((recent_avg - prior_avg) / prior_avg) * 100, in floats.
StepsChange(recent_steps, prior_steps) ==
    LET Change(recent_avg, prior_avg) ==
            FloatMulInt[FloatDiv[FloatSub[recent_avg, prior_avg], prior_avg],
                        100]
    IN  Change(FloatMean(recent_steps), FloatMean(prior_steps))

\* The step-trend rule: under "if prior_dates" and "if prior_avg > 0",
\* change > 10 gives the first card and change < -10 the second.
TrendCards(data) ==
    LET Rule(change) ==
            IF FloatLess[FloatOf[10], change]
            THEN <<Card("positive", "Steps Trending Up")>>
            ELSE IF FloatLess[change, FloatOf[-10]]
                 THEN <<Card("warning", "Activity Dip Detected")>>
                 ELSE <<>>
        Weeks(recent_steps, prior_steps) ==
            IF prior_steps # <<>> /\ SeqSum(prior_steps) > 0
            THEN Rule(StepsChange(recent_steps, prior_steps))
            ELSE <<>>
    IN  Weeks(StepsOf(RecentDays(data)), StepsOf(PriorDays(data)))

\* The goal rules, under "if stats.get('goals'):".
GoalCards(stats) ==
    LET goals == DictGet(stats, "goals", <<>>)
        steps_10k == DictGet(goals, "steps_10k", <<>>)
        steps_achieved == DictGet(steps_10k, "achieved", 0)
        exercise_achieved == DictGet(DictGet(goals, "exercise_30m", <<>>), "achieved", 0)
        total_days == DictGet(steps_10k, "total", 7)
    IN  IF DOMAIN goals # {}
        THEN (IF steps_achieved >= total_days
              THEN <<Card("positive", "Perfect Step Week!")>> ELSE <<>>)
             \o (IF exercise_achieved = total_days
                 THEN <<Card("positive", "Exercise Champion")>> ELSE <<>>)
        ELSE <<>>

\* The HRV rule over recent_dates[-3:], readings of 0 dropped.
HrvCards(data) ==
    LET last3 == LastN(RecentDays(data), 3)
        all == [i \in 1..Len(last3) |-> DictGet(last3[i].readings, "hrv_avg", 0)]
        recent_hrv == SelectSeq(all, LAMBDA h : h > 0)
    IN  IF recent_hrv # <<>>
        THEN IF SeqSum(recent_hrv) >= 50 * Len(recent_hrv)
             THEN <<Card("positive", "Great Recovery")>>
             ELSE IF SeqSum(recent_hrv) < 30 * Len(recent_hrv)
                  THEN <<Card("warning", "Consider Rest")>>
                  ELSE <<>>
        ELSE <<>>

\* if stats.get('averages', {}).get('resting_hr', 0) < 60
AthleticCards(stats) ==
    IF DictGet(DictGet(stats, "averages", <<>>), "resting_hr", 0) < 60
    THEN <<Card("positive", "Athletic Heart Rate")>>
    ELSE <<>>

\* The card's text reads stats['averages']['resting_hr'] without a default:
\* building it raises KeyError when the rule fires on the default 0 of a
\* summary that has no such entry.
AthleticTextRaises(stats) ==
    /\ AthleticCards(stats) # <<>>
    /\ \/ "averages" \notin DOMAIN stats
       \/ "resting_hr" \notin DOMAIN stats.averages

\* The outcome of a call that raised KeyError instead of returning.
KeyError == [raised |-> "KeyError"]

\* The step-record rule: the largest step count of the recent days.
RecordCards(data) ==
    IF SeqMax(StepsOf(RecentDays(data))) >= 15000
    THEN <<Card("positive", "Outstanding Activity Day")>>
    ELSE <<>>

\* return insights[:4]
CapInsights_lastFour(insights) == LastN(insights, 4)

CapInsights(insights) == SubSeq(insights, 1, Min(4, Len(insights)))

\* generate_insights(data, stats)
generate_insights(data, stats) ==
    IF Len(data) < 7 THEN <<Card("neutral", "Collecting Data")>>
    ELSE IF AthleticTextRaises(stats) THEN KeyError
    ELSE LET insights == TrendCards(data) \o GoalCards(stats) \o HrvCards(data)
                           \o AthleticCards(stats) \o RecordCards(data)
         IN  IF insights = <<>> THEN <<Card("neutral", "Keep Tracking")>>
             ELSE CapInsights(insights)

----------------------------------------------------------------------------
(* generate_actionable_insights, scripts/deep_analysis.py                   *)
(*                                                                         *)
(* Dates are integers yyyymmdd; exercise_consistency is held in hundredths *)
(* and the pct_change values in whole percents.                            *)

\* trajectory.get(metric, {}).get('improving')
Improving(report, metric) ==
    DictGet(DictGet(DictGet(report, "fitness_trajectory", <<>>), metric, <<>>),
            "improving", FALSE)

\* change = trajectory['vo2_max']['change'], read without a default once
\* vo2_max is improving.
TrajectoryRaises(report) ==
    /\ Improving(report, "vo2_max")
    /\ "change" \notin DOMAIN report.fitness_trajectory.vo2_max

TrajectoryCards(report) ==
    IF TrajectoryRaises(report) THEN KeyError
    ELSE (IF Improving(report, "vo2_max")
          THEN <<Card("positive", "VO2 Max Improving")>> ELSE <<>>)
         \o (IF Improving(report, "resting_hr")
             THEN <<Card("positive", "Heart Efficiency Improving")>>
             ELSE <<>>)

\* streaks['longest_step_streak'], read without a default by the text of
\* the streak card.
StreakRaises(report) ==
    LET streaks == DictGet(report, "streaks", <<>>)
    IN  /\ DictGet(streaks, "current_streak", 0) >= 7
        /\ "longest_step_streak" \notin DOMAIN streaks

StreakCards(report) ==
    LET streaks == DictGet(report, "streaks", <<>>)
    IN  IF StreakRaises(report) THEN KeyError
        ELSE (IF DictGet(streaks, "current_streak", 0) >= 7
              THEN <<Card("positive", "N-Day Streak!")>> ELSE <<>>)
             \o (IF DictGet(streaks, "exercise_consistency", 0) >= 70
                 THEN <<Card("positive", "Exercise Champion")>> ELSE <<>>)

\* report['overview']['date_range']['end'], read without a default for
\* every low-HRV day.
AnomalyRaises(report) ==
    /\ DictGet(DictGet(report, "anomalies", <<>>), "low_hrv_days", <<>>) # <<>>
    /\ \/ "overview" \notin DOMAIN report
       \/ "date_range" \notin DOMAIN report.overview
       \/ "end" \notin DOMAIN report.overview.date_range

\* low_hrv_days holds (date, value) pairs.
\* d >= report['overview']['date_range']['end'][:8] on 'YYYY-MM-DD' strings:
\* d is in the month of the end date or later.
AnomalyCards(report) ==
    LET low == DictGet(DictGet(report, "anomalies", <<>>), "low_hrv_days", <<>>)
        end == report.overview.date_range.end
        recent_low == SelectSeq(low, LAMBDA dv : dv[1] \div 100 >= end \div 100)
    IN  IF AnomalyRaises(report) THEN KeyError
        ELSE IF low # <<>> /\ recent_low # <<>>
             THEN <<Card("warning", "Recovery Alert")>>
             ELSE <<>>

\* trends.get(metric, {}).get('pct_change', 0)
PctChange(report, metric) ==
    DictGet(DictGet(DictGet(report, "recent_vs_previous", <<>>), metric, <<>>),
            "pct_change", 0)

RecentTrendCards(report) ==
    (IF PctChange(report, "exercise_min") > 20
     THEN <<Card("positive", "Exercise Trending Up")>> ELSE <<>>)
    \o (IF PctChange(report, "resting_hr") > 5
        THEN <<Card("warning", "Resting HR Elevated")>> ELSE <<>>)

\* best = max([low, medium, high], key=steps_hrv.get(k, 0)): the first key
\* with the largest value, so high only when it beats both others.
CorrelationCards(report) ==
    LET steps_hrv == DictGet(DictGet(report, "correlations", <<>>), "steps_to_hrv", <<>>)
        v(k) == DictGet(steps_hrv, k, 0)
    IN  IF DOMAIN steps_hrv # {}
           /\ v("high_steps_hrv") > v("low_steps_hrv")
           /\ v("high_steps_hrv") > v("medium_steps_hrv")
        THEN <<Card("neutral", "Steps & Recovery")>>
        ELSE <<>>

\* return insights[:6]
CapActionable(insights) == SubSeq(insights, 1, Min(6, Len(insights)))

\* generate_actionable_insights(report)
\* A read without a default finds no key.
ActionableRaises(report) ==
    TrajectoryRaises(report) \/ StreakRaises(report) \/ AnomalyRaises(report)

generate_actionable_insights(report) ==
    IF ActionableRaises(report) THEN KeyError
    ELSE CapActionable(TrajectoryCards(report) \o StreakCards(report)
                         \o AnomalyCards(report) \o RecentTrendCards(report)
                         \o CorrelationCards(report))

----------------------------------------------------------------------------
(* The aggregation specification: one raw day, one aggregation path         *)

\* A reading carrying the quantity v (in quarters).
Q(v) == [qty |-> v]

\* A heart-rate reading carrying only an Avg field.
AvgOnly(v) == [Avg |-> v]

MaxStandReadings == 4
MaxStepReadings == 3
MaxHrReadings == 3

\* Stand-hour readings 0, 0.5, 1 and 2.
StandReadings == {Q(0), Q(2), Q(4), Q(8)}

\* Step readings 0.25, 0.75, 1, 1.5 and 100.
StepReadings == {Q(1), Q(3), Q(4), Q(6), Q(400)}

\* Heart-rate readings 65, 72.5 and 130, one with only an Avg of 70 and one
\* with a qty of 75 and an Avg of 80.
HrReadings == {Q(260), Q(290), Q(520), AvgOnly(280), [qty |-> 300, Avg |-> 320]}

\* The heart-rate readings 65, 72, 130, 140, 75.
HrExample == <<Q(260), Q(288), Q(520), Q(560), Q(300)>>

\* Days with a single metric and every reading list up to the bound.
SingleMetricDays ==
    {[n \in {"apple_stand_hour"} |-> rs] :
        rs \in SeqsUpTo(StandReadings, MaxStandReadings)}
    \cup {[n \in {"step_count"} |-> rs] :
        rs \in SeqsUpTo(StepReadings, MaxStepReadings)}
    \cup {[n \in {"heart_rate"} |-> rs] :
        rs \in SeqsUpTo(HrReadings, MaxHrReadings) \cup {HrExample}}

\* Metrics of the days that vary which metrics are present.
MixedMetrics ==
    {"step_count", "apple_stand_hour", "walking_running_distance",
     "resting_heart_rate", "heart_rate_variability", "heart_rate"}

\* A typical reading list of each of them.
SampleReadings ==
    [step_count |-> <<Q(168), Q(232), Q(482)>>,
     apple_stand_hour |-> <<Q(4), Q(4), Q(0), Q(8)>>,
     walking_running_distance |-> <<Q(6), Q(9)>>,
     resting_heart_rate |-> <<Q(232), Q(240)>>,
     heart_rate_variability |-> <<Q(120), Q(162), Q(200)>>,
     heart_rate |-> <<Q(260), AvgOnly(280), Q(521)>>]

\* Each metric is absent, present without readings, present with a single
\* zero reading, or present with its sample readings.
MixedDays ==
    LET pick(n, c) == CASE c = 1 -> <<>>
                        [] c = 2 -> <<Q(0)>>
                        [] OTHER -> SampleReadings[n]
    IN  UNION {{[n \in P |-> pick(n, c[n])] : c \in [P -> 1..3]} :
                  P \in SUBSET MixedMetrics}

MaxRestingReadings == 3

\* Resting-heart-rate readings 58, 60 and 62.5, one of 0 and one without a
\* quantity; [58, 60] is the list of test_extracts_resting_hr.
RestingReadings == {Q(232), Q(240), Q(250), Q(0), [source |-> "watch"]}

\* Days with every list of resting-heart-rate readings up to the bound.
RestingHrDays ==
    {[n \in {"resting_heart_rate"} |-> rs] :
        rs \in SeqsUpTo(RestingReadings, MaxRestingReadings)}

RawDays == SingleMetricDays \cup MixedDays \cup RestingHrDays

InitAgg == fn = "input" /\ arg \in RawDays /\ ret = NoResult

\* load_date_range: totals, readings and heart-rate stats of the day.
DetailedPath ==
    /\ fn = "input"
    /\ fn' = "detailed"
    /\ ret' = DetailedDay(arg)
    /\ UNCHANGED arg

\* load_all_health_data and calculate_daily_stats on the day.
DeepPath ==
    /\ fn = "input"
    /\ fn' = "deep"
    /\ ret' = DeepDay(arg)
    /\ UNCHANGED arg

NextAgg == DetailedPath \/ DeepPath

SpecAgg == InitAgg /\ [][NextAgg]_vars

----------------------------------------------------------------------------
(* The insight specification: one call of either insight generator          *)

\* A loaded day with the given step total and HRV average (Absent: no key).
DayWith(steps, hrv) ==
    [totals |-> [k \in (IF steps = Absent THEN {} ELSE {"steps"}) |-> steps],
     readings |-> [k \in (IF hrv = Absent THEN {} ELSE {"hrv_avg"}) |-> hrv]]

MaxDays == 15

\* Step totals of the days before the last fourteen.
OlderSteps == 20000

\* Step totals of the seven days before the last seven.
PriorSteps == {Absent, 0, 10000}

\* Step totals of the last seven days but the last.
RecentSteps == {0, 8000, 11000, 11500, 16000}

\* Step totals of the last day, besides that of the other recent days.
LastDaySteps == {15000}

\* HRV averages of the last three days, in date order.
HrvPatterns ==
    {<<Absent, Absent, Absent>>, <<20, 20, 20>>, <<60, 60, 60>>,
     <<60, 20, Absent>>, <<0, 60, Absent>>}

\* n days in date order: the last day has l steps, the six before it r, the
\* seven before those p, older days OlderSteps; the last three days have the
\* HRV averages h, earlier days 60.
Days(n, p, r, l, h) ==
    [i \in 1..n |->
        LET back == n - i
        IN  DayWith(IF back = 0 THEN l
                    ELSE IF back < 7 THEN r
                    ELSE IF back < 14 THEN p
                    ELSE OlderSteps,
                    IF back < 3 THEN h[3 - back] ELSE 60)]

\* goals of generate_summary_stats over a week, or no goals at all.
GoalsInputs ==
    {<<>>}
    \cup {[steps_10k |-> [achieved |-> sa, total |-> 7],
           exercise_30m |-> [achieved |-> ea, total |-> 7]] :
             sa \in {0, 7}, ea \in {0, 7}}

\* Resting-HR averages of the summary (0: no reading in the window);
\* generate_summary_stats always sets averages.resting_hr.
RestingHrAverages == {0, 55, 60}

StatsInputs ==
    {[averages |-> [resting_hr |-> rhr], goals |-> g] :
        rhr \in RestingHrAverages, g \in GoalsInputs}

\* The last day has the steps of the other recent days or a LastDaySteps
\* total.
RecentAndLast ==
    {rl \in RecentSteps \X (RecentSteps \cup LastDaySteps) :
        rl[2] = rl[1] \/ rl[2] \in LastDaySteps}

\* Fourteen days of step totals whose recent week is 10% above or below
\* the prior week, or within a step of that: the change computed in
\* floats falls on either side of 10 and of -10.
TenPercentSteps ==
    {<<30, 0, 0, 0, 0, 0, 0, 33, 0, 0, 0, 0, 0, 0>>,
     <<8571, 8571, 8571, 8571, 8571, 8571, 8574,
       9428, 9428, 9428, 9428, 9428, 9428, 9432>>,
     <<8571, 8571, 8571, 8571, 8571, 8571, 8574,
       9428, 9428, 9428, 9428, 9428, 9428, 9433>>,
     <<8572, 8572, 8572, 8572, 8572, 8572, 8578,
       7715, 7715, 7715, 7715, 7715, 7715, 7719>>,
     <<8572, 8572, 8572, 8572, 8572, 8572, 8578,
       7715, 7715, 7715, 7715, 7715, 7715, 7718>>,
     <<10, 10, 10, 10, 10, 10, 10, 11, 11, 11, 11, 11, 11, 11>>,
     <<10, 10, 10, 10, 10, 10, 10, 9, 9, 9, 9, 9, 9, 9>>}

\* The days with the given step totals, each with an HRV average of 40.
StepDays(steps) == [i \in 1..Len(steps) |-> DayWith(steps[i], 40)]

DashboardInputs ==
    {[kind |-> "dashboard", data |-> Days(n, p, rl[1], rl[2], h), stats |-> st] :
        n \in 0..MaxDays, p \in PriorSteps, rl \in RecentAndLast,
        h \in HrvPatterns, st \in StatsInputs}
    \cup {[kind |-> "dashboard", data |-> StepDays(steps), stats |-> st] :
              steps \in TenPercentSteps, st \in StatsInputs}

\* A dict with the entry k: v when present holds, the empty dict otherwise.
Entry(present, k, v) == [x \in (IF present THEN {k} ELSE {}) |-> v]

\* The reports: every rule's inputs around its threshold.
ReportInputs ==
    {[kind |-> "report",
      report |->
        [overview |-> [date_range |-> [start |-> 20250101, end |-> 20251201]],
         fitness_trajectory |->
             Entry(vo2 # Absent, "vo2_max", [improving |-> vo2 = 1, change |-> 2])
             @@ [resting_hr |-> [improving |-> rhr]],
         streaks |-> [current_streak |-> cur, longest_step_streak |-> 20,
                      exercise_consistency |-> cons],
         anomalies |-> Entry(low # Absent, "low_hrv_days",
                             IF low = 0 THEN <<>> ELSE <<<<low, 20>>>>),
         recent_vs_previous |-> [exercise_min |-> [pct_change |-> ex],
                                 resting_hr |-> [pct_change |-> rp]],
         correlations |-> Entry(hi # Absent, "steps_to_hrv",
                                [low_steps_hrv |-> 35, medium_steps_hrv |-> 38,
                                 high_steps_hrv |-> hi])]] :
        vo2 \in {Absent, 0, 1}, rhr \in BOOLEAN, cur \in {0, 6, 7},
        cons \in {69, 70}, low \in {Absent, 0, 20251130, 20251201},
        ex \in {20, 21}, rp \in {5, 6}, hi \in {Absent, 35, 38, 42}}

InitInsights ==
    fn = "input" /\ arg \in DashboardInputs \cup ReportInputs /\ ret = NoResult

GenerateInsights ==
    /\ fn = "input"
    /\ arg.kind = "dashboard"
    /\ fn' = "generate_insights"
    /\ ret' = generate_insights(arg.data, arg.stats)
    /\ UNCHANGED arg

GenerateActionableInsights ==
    /\ fn = "input"
    /\ arg.kind = "report"
    /\ fn' = "generate_actionable_insights"
    /\ ret' = generate_actionable_insights(arg.report)
    /\ UNCHANGED arg

NextInsights == GenerateInsights \/ GenerateActionableInsights

SpecInsights == InitInsights /\ [][NextInsights]_vars

----------------------------------------------------------------------------
(* Properties of the daily aggregators                                      *)

\* The detailed path has stored an aggregate for the day.
DetailedReturned == fn = "detailed" /\ ret # None

\* The deep-analysis path has an entry for the day.
DeepReturned == fn = "deep" /\ ret # None

\* The quantities of the day's readings of a metric, absent qty read as 0.
QtysOf(raw, name) ==
    [i \in 1..Len(raw[name]) |-> DictGet(raw[name][i], "qty", 0)]

\* Number of readings of the metric whose value is at least `least`.
CountAtLeast(raw, name, least) ==
    Cardinality({i \in 1..Len(raw[name]) : QtysOf(raw, name)[i] >= least})

\* C2: the stand_hours value of the daily aggregate equals the number of
\* apple_stand_hour readings whose value is >= 1, not the sum of the values,
\* in both aggregation paths (calculate_totals and calculate_daily_stats).
C2_StandHoursCountsReadings ==
    /\ (DetailedReturned /\ "apple_stand_hour" \in DOMAIN arg) =>
           ret.totals.stand_hours = CountAtLeast(arg, "apple_stand_hour", QtyScale)
    /\ (DeepReturned /\ "apple_stand_hour" \in DOMAIN arg) =>
           ret.stand_hours = CountAtLeast(arg, "apple_stand_hour", QtyScale)

\* The sum of the day's readings of a metric, taken over the set of reading
\* positions (so in no particular order), in quarters.
UnorderedSum(raw, name) == SetSum(QtysOf(raw, name), 1..Len(raw[name]))

\* The reorderings of a reading list.
Reorderings(rs) ==
    {[i \in 1..Len(rs) |-> rs[p[i]]] :
        p \in {q \in [1..Len(rs) -> 1..Len(rs)] :
                  \A i, j \in 1..Len(rs) : q[i] = q[j] => i = j}}

\* The day with the readings of one metric replaced.
WithReadings(raw, name, rs) == [raw EXCEPT ![name] = rs]

\* C3 as claimed: the steps total of the daily aggregate equals
\* round(q_1 + ... + q_N), rounded to the nearest integer and not truncated,
\* in every order of the readings.
C3_StepsRoundedSum ==
    (DetailedReturned /\ "step_count" \in DOMAIN arg) =>
        \A rs \in Reorderings(arg["step_count"]) :
            calculate_totals(extract_all_metrics(
                WithReadings(arg, "step_count", rs))).steps
              = PyRound(UnorderedSum(arg, "step_count"), QtyScale)

\* C3 as amended: the steps total computed by calculate_totals equals the
\* sum q_1 + ... + q_N truncated to an integer (int(), not rounded to the
\* nearest), in every order of the readings.
C3_StepsTruncatedSum ==
    (DetailedReturned /\ "step_count" \in DOMAIN arg) =>
        /\ ret.totals.steps * QtyScale <= UnorderedSum(arg, "step_count")
        /\ UnorderedSum(arg, "step_count") < (ret.totals.steps + 1) * QtyScale
        /\ \A rs \in Reorderings(arg["step_count"]) :
              calculate_totals(extract_all_metrics(
                  WithReadings(arg, "step_count", rs))).steps = ret.totals.steps

\* C3 witness: readings 0.25, 1.5 and 1 in that order sum to 2.75 and the
\* total is 2.
C3_Witness ==
    /\ DetailedReturned
    /\ DOMAIN arg = {"step_count"}
    /\ arg["step_count"] = <<Q(1), Q(6), Q(4)>>
    /\ ret.totals.steps = 2

\* C4 as claimed: in both aggregation paths a key of a summed total or of a
\* point reading is present only if its metric is present in the source
\* day.
C4_AbsentMetricOmitted ==
    /\ DetailedReturned =>
          /\ \A k \in DOMAIN ret.totals : TotalsSource[k] \in DOMAIN arg
          /\ \A k \in DOMAIN ret.readings : ReadingsSource[k] \in DOMAIN arg
          /\ ret.hr_stats # None => "heart_rate" \in DOMAIN arg
    /\ DeepReturned =>
          /\ \A k \in DOMAIN ret \cap DeepSumKeys : DeepSumSource[k] \in DOMAIN arg
          /\ "stand_hours" \in DOMAIN ret => "apple_stand_hour" \in DOMAIN arg
          /\ \A k \in DOMAIN ret \cap DeepPointKeys : DeepPointSource[k] \in DOMAIN arg

\* C4 as amended: in the detailed path (calculate_totals, get_key_readings,
\* get_heart_rate_stats) a key is present only if its metric is present in
\* the source day; in the deep-analysis path (calculate_daily_stats) that
\* holds of the point readings only, while every summed total and
\* stand_hours are always present and are 0 when the metric is absent.
C4_AbsentOmittedOrZeroInDeepSums ==
    /\ DetailedReturned =>
          /\ \A k \in DOMAIN ret.totals : TotalsSource[k] \in DOMAIN arg
          /\ \A k \in DOMAIN ret.readings : ReadingsSource[k] \in DOMAIN arg
          /\ ret.hr_stats # None => "heart_rate" \in DOMAIN arg
    /\ DeepReturned =>
          /\ \A k \in DOMAIN ret \cap DeepPointKeys : DeepPointSource[k] \in DOMAIN arg
          /\ DeepSumKeys \cup {"stand_hours"} \subseteq DOMAIN ret
          /\ \A k \in DeepSumKeys : DeepSumSource[k] \notin DOMAIN arg => ret[k] = 0
          /\ "apple_stand_hour" \notin DOMAIN arg => ret.stand_hours = 0

\* C4 witness: a day with heart-rate-variability readings and no step_count
\* metric has been aggregated by both paths' rules: the deep path reports
\* steps 0 and an HRV average.
C4_Witness ==
    /\ DeepReturned
    /\ DOMAIN arg = {"heart_rate_variability", "walking_running_distance"}
    /\ ret.steps = 0
    /\ "hrv_avg" \in DOMAIN ret
    /\ "resting_hr" \notin DOMAIN ret

\* The positions of the heart-rate readings that carry a qty.
QtyPositions(raw) ==
    {i \in 1..Len(raw["heart_rate"]) : "qty" \in DOMAIN raw["heart_rate"][i]}

\* C7: get_heart_rate_stats computes count, min, max and the
\* integer-truncated mean over exactly the heart-rate readings that carry a
\* qty (readings without qty are skipped, not counted as 0), so
\* min <= avg <= max and count is the number of such readings; it returns
\* None when no reading carries a qty.
C7_HeartRateStatsOverQtyReadings ==
    DetailedReturned =>
        LET has == "heart_rate" \in DOMAIN arg
            pos == IF has THEN QtyPositions(arg) ELSE {}
            q == [i \in pos |-> arg["heart_rate"][i].qty]
            total == SetSum(q, pos)
            n == Cardinality(pos)
            st == ret.hr_stats
        IN  IF pos = {} THEN st = None
            ELSE /\ st # None
                 /\ st.count = n
                 /\ \E i \in pos : st.min = q[i] \div QtyScale
                 /\ \A i \in pos : st.min <= q[i] \div QtyScale
                 /\ \E i \in pos : st.max = q[i] \div QtyScale
                 /\ \A i \in pos : st.max >= q[i] \div QtyScale
                 /\ st.avg * n * QtyScale <= total
                 /\ total < (st.avg + 1) * n * QtyScale
                 /\ st.min <= st.avg
                 /\ st.avg <= st.max

\* C7 witness: the readings 65, 72, 130, 140, 75 give count 5, min 65,
\* max 140 and avg 96.
C7_Witness ==
    /\ DetailedReturned
    /\ DOMAIN arg = {"heart_rate"}
    /\ arg["heart_rate"] = HrExample
    /\ ret.hr_stats = [count |-> 5, min |-> 65, max |-> 140, avg |-> 96]

----------------------------------------------------------------------------
(* Properties of the insight generators                                     *)

InsightsReturned == fn = "generate_insights"

ActionableReturned ==
    fn = "generate_actionable_insights" /\ ~ActionableRaises(arg.report)

\* The cards of the rules of generate_insights that trigger, in
\* rule-evaluation order.
TriggeredDashboard(in) ==
    TrendCards(in.data) \o GoalCards(in.stats) \o HrvCards(in.data)
        \o AthleticCards(in.stats) \o RecordCards(in.data)

\* The cards of the rules of generate_actionable_insights that trigger, in
\* rule-evaluation order.
TriggeredActionable(in) ==
    TrajectoryCards(in.report) \o StreakCards(in.report)
        \o AnomalyCards(in.report) \o RecentTrendCards(in.report)
        \o CorrelationCards(in.report)

\* out is the first cap elements of the list all.
IsFirstOf(out, all, cap) ==
    /\ Len(out) = Min(cap, Len(all))
    /\ \A i \in 1..Len(out) : out[i] = all[i]

\* C8: generate_insights returns at most 4 cards and
\* generate_actionable_insights at most 6, and in each the returned list is
\* exactly the first 4 (resp. 6) triggered cards in rule-evaluation order.
C8_InsightsCapped ==
    /\ InsightsReturned =>
          /\ Len(ret) <= 4
          /\ (Len(arg.data) >= 7 /\ TriggeredDashboard(arg) # <<>>) =>
                 IsFirstOf(ret, TriggeredDashboard(arg), 4)
    /\ ActionableReturned =>
          /\ Len(ret) <= 6
          /\ IsFirstOf(ret, TriggeredActionable(arg), 6)

\* C8 witness: six dashboard rules trigger and the first four cards are
\* returned.
C8_Witness ==
    /\ InsightsReturned
    /\ Len(arg.data) >= 14
    /\ Len(TriggeredDashboard(arg)) = 6
    /\ Len(ret) = 4
    /\ ret[1].title = "Steps Trending Up"
    /\ ret[4].title = "Great Recovery"

\* C9: in both insight generators, whenever no rule triggers the output is
\* exactly one card of type neutral, so the returned list is never empty.
C9_NeutralFallback ==
    /\ (InsightsReturned /\ (Len(arg.data) < 7 \/ TriggeredDashboard(arg) = <<>>)) =>
           (Len(ret) = 1 /\ ret[1].type = "neutral")
    /\ (ActionableReturned /\ TriggeredActionable(arg) = <<>>) =>
           (Len(ret) = 1 /\ ret[1].type = "neutral")
    /\ (InsightsReturned \/ ActionableReturned) => ret # <<>>

\* Sum of the step totals of the days at the positions S.
StepsOver(data, S) ==
    SetSum([i \in S |-> DictGet(data[i].totals, "steps", 0)], S)

\* Step total of the last 7 days and of the 7 days before them (at least 14
\* days of history).
RecentWeekSteps(data) == StepsOver(data, (Len(data) - 6)..Len(data))

PriorWeekSteps(data) == StepsOver(data, (Len(data) - 13)..(Len(data) - 7))

HasCard(cards, title) == \E i \in 1..Len(cards) : cards[i].title = title

HasTrendCard(cards) ==
    HasCard(cards, "Steps Trending Up") \/ HasCard(cards, "Activity Dip Detected")

\* C10 as claimed: generate_insights emits a positive 'Steps Trending Up'
\* card whenever at least 14 days of history exist and the mean steps of the
\* last 7 days exceed the mean of the 7 days before by more than 10%; with
\* fewer than 14 days it never emits a step-trend card.
C10_StepsTrendingUp ==
    InsightsReturned =>
        /\ (Len(arg.data) >= 14
            /\ 10 * RecentWeekSteps(arg.data) > 11 * PriorWeekSteps(arg.data)) =>
               \E i \in 1..Len(ret) :
                   ret[i] = Card("positive", "Steps Trending Up")
        /\ Len(arg.data) < 14 => ~HasTrendCard(ret)

\* C10 as amended: the card is emitted whenever at least 14 days of history
\* exist, the mean steps of the 7 days before the last 7 is greater than 0
\* and the mean of the last 7 days exceeds it by more than 10%; when that
\* prior mean is 0 no step-trend card is emitted, and with fewer than 14
\* days no step-trend card is ever emitted.
C10_StepsTrendingUpPositivePrior ==
    InsightsReturned =>
        /\ (Len(arg.data) >= 14
            /\ PriorWeekSteps(arg.data) > 0
            /\ 10 * RecentWeekSteps(arg.data) > 11 * PriorWeekSteps(arg.data)) =>
               \E i \in 1..Len(ret) :
                   ret[i] = Card("positive", "Steps Trending Up")
        /\ (Len(arg.data) >= 14 /\ PriorWeekSteps(arg.data) = 0) =>
               ~HasTrendCard(ret)
        /\ Len(arg.data) < 14 => ~HasTrendCard(ret)

\* C10 witness: 14 days, the prior week at 10000 steps a day, the recent
\* week 15% above it, and the card comes first.
C10_Witness ==
    /\ InsightsReturned
    /\ Len(arg.data) = 14
    /\ PriorWeekSteps(arg.data) = 70000
    /\ RecentWeekSteps(arg.data) = 80500
    /\ ret[1] = Card("positive", "Steps Trending Up")

----------------------------------------------------------------------------
(* Properties of calculate_health_score                                     *)

ScoreReturned == fn = "calculate_health_score"

\* C1: for every averages mapping the returned score is an integer with
\* 0 <= score <= 100, equal to round(sum of the component contributions)
\* clamped to that range.
C1_ScoreIsClampedRoundedSum ==
    ScoreReturned =>
        /\ ret.score \in 0..100
        /\ ret.score = Max(0, Min(100, FloatRoundTo[ScoreSum(arg), 1]))

\* C1 witness: the contributions sum to more than 100 and the score is 100.
C1_Witness ==
    /\ ScoreReturned
    /\ FloatRoundTo[ScoreSum(arg), 1] > 100
    /\ ret.score = 100

\* The breakdown keys in the order their contributions are added.
BreakdownOrder == <<"steps", "exercise", "stand", "resting_hr", "hrv">>

\* The input with only the entry of breakdown key k kept.
OnlyMetric(avgs, k) ==
    [x \in {AvgKeyOf[k]} \cap DOMAIN avgs |-> avgs[x]]

\* C5: a metric absent from the averages (or zero) contributes exactly 0 and
\* leaves the other contributions unchanged: its breakdown entry is missing,
\* every other entry is what that metric scores on its own, the score is the
\* capped rounded sum of the metrics' stand-alone contributions, and with
\* all five absent or zero the score is 0 and the level needs_work.
C5_AbsentMetricContributesZero ==
    ScoreReturned =>
        /\ \A k \in BreakdownKeys :
              DictGet(arg, AvgKeyOf[k], 0) = 0 =>
                  /\ k \notin DOMAIN ret.breakdown
                  /\ ComponentScores(arg)[k] = FloatZero
                  /\ ret.score = calculate_health_score(DictDrop(arg, AvgKeyOf[k])).score
        /\ \A k \in DOMAIN ret.breakdown :
              ret.breakdown[k] = calculate_health_score(OnlyMetric(arg, k)).breakdown[k]
        /\ ret.score =
              Min(100, FloatRoundTo[
                  FloatSum([i \in 1..Len(BreakdownOrder) |->
                               ScoreSum(OnlyMetric(arg, BreakdownOrder[i]))]), 1])
        /\ (\A k \in AvgKeys : DictGet(arg, k, 0) = 0) =>
              (ret.score = 0 /\ ret.level = "needs_work")

\* C5 witness: steps are absent, another metric scores, and the score is
\* what the present metrics alone give.
C5_Witness ==
    /\ ScoreReturned
    /\ "steps" \notin DOMAIN arg
    /\ DictGet(arg, "hrv", 0) >= 50
    /\ DictGet(arg, "exercise_minutes", 0) = 30
    /\ DOMAIN ret.breakdown = {"exercise", "hrv"}
    /\ ret.score = 40

\* The scoring table of the specification, evaluated in floats.
TableSteps(v) ==
    IF v * 10 <= 12 * 10000 THEN FloatMulInt[IntDiv[v, 10000], 25]
    ELSE FloatMulInt[Literal["1.2"], 25]

TableExercise(v) ==
    IF v * 10 <= 15 * 30 THEN FloatMulInt[IntDiv[v, 30], 25]
    ELSE FloatMulInt[Literal["1.5"], 25]

TableStand(v10) ==
    IF v10 <= 12 * 12 THEN FloatMulInt[FloatDiv[Tenths(v10), FloatOf[12]], 20]
    ELSE FloatMulInt[Literal["1.2"], 20]

TableRestingHr(v) ==
    CASE v <= 60 -> FloatOf[15]
      [] v > 60 /\ v <= 70 -> FloatMulInt[Literal["0.8"], 15]
      [] v > 70 /\ v <= 80 -> FloatMulInt[Literal["0.6"], 15]
      [] OTHER -> FloatMulInt[Literal["0.4"], 15]

TableHrv(v) ==
    CASE v >= 50 -> FloatOf[15]
      [] v < 50 /\ v >= 40 -> FloatMulInt[Literal["0.9"], 15]
      [] v < 40 /\ v >= 30 -> FloatMulInt[Literal["0.7"], 15]
      [] OTHER -> FloatMulInt[Literal["0.5"], 15]

\* The table's contribution of each breakdown key; an absent or zero metric
\* contributes nothing.
TableContribution(avgs) ==
    LET v(k) == DictGet(avgs, AvgKeyOf[k], 0)
        t == [steps |-> TableSteps(v("steps")),
              exercise |-> TableExercise(v("exercise")),
              stand |-> TableStand(v("stand")),
              resting_hr |-> TableRestingHr(v("resting_hr")),
              hrv |-> TableHrv(v("hrv"))]
    IN  [k \in BreakdownKeys |-> IF v(k) > 0 THEN t[k] ELSE FloatZero]

GoalAverages ==
    [steps |-> 10000, exercise_minutes |-> 30, stand_hours |-> 120,
     resting_hr |-> 60, hrv |-> 50]

\* C6: the score is the capped rounded sum of the table's contributions
\* (steps 25*min(steps/10000, 1.2), exercise 25*min(minutes/30, 1.5), stand
\* 20*min(hours/12, 1.2), resting HR 15 points by the bands <=60, <=70,
\* <=80, else, HRV 15 points by the bands >=50, >=40, >=30, else), every
\* breakdown entry is the table's contribution, and the level is excellent
\* iff score >= 85, good iff 70 <= score < 85, moderate iff 55 <= score < 70
\* and needs_work otherwise; the goal averages score in [85, 100].
C6_ScoreMatchesTable ==
    ScoreReturned =>
        LET t == TableContribution(arg)
        IN  /\ ret.score =
                  Min(100, FloatRoundTo[
                      FloatSum([i \in 1..Len(BreakdownOrder) |->
                                   t[BreakdownOrder[i]]]), 1])
            /\ \A k \in DOMAIN ret.breakdown :
                  ret.breakdown[k] = FloatRoundTo[t[k], 10]
            /\ (ret.level = "excellent") <=> (ret.score >= 85)
            /\ (ret.level = "good") <=> (ret.score >= 70 /\ ret.score < 85)
            /\ (ret.level = "moderate") <=> (ret.score >= 55 /\ ret.score < 70)
            /\ (ret.level = "needs_work") <=> (ret.score < 55)
            /\ arg = GoalAverages =>
                  (ret.score \in 85..100 /\ ret.level = "excellent")

\* C6 witness: the goal averages have been scored.
C6_Witness ==
    /\ ScoreReturned
    /\ arg = GoalAverages
    /\ ret.score = 100
    /\ ret.level = "excellent"

----------------------------------------------------------------------------
(* The trend engine of scripts/deep_analysis.py                             *)
(*                                                                         *)
(* daily_stats is a function from dates to the day's statistics; a date    *)
(* "YYYY-MM-DD" is the integer YYYYMMDD, whose order is the order of the   *)
(* date strings. The dict is filled in date order (calculate_daily_stats   *)
(* inserts sorted(daily_data.items())), so iterating it is iterating the   *)
(* sorted dates.                                                           *)

\* The empty string in a date field: it sorts before every date.
EmptyDate == 0

\* None in a date field.
NullDate == -1

\* sorted(S) for a set of integers.
RECURSIVE Sorted(_)
Sorted(S) ==
    IF S = {} THEN <<>>
    ELSE LET least == CHOOSE x \in S : \A y \in S : x <= y
         IN  <<least>> \o Sorted(S \ {least})

\* dates = sorted(daily_stats.keys())
SortedDates(daily_stats) == Sorted(DOMAIN daily_stats)

\* One iteration of the step-streak loop that never resets the run.
StreakStep_noReset(s, date, steps, goal_steps) ==
    IF steps >= goal_steps
    THEN LET streak == s.streak + 1
         IN  IF streak > s.max_streak
             THEN [streak |-> streak, max_streak |-> streak,
                   max_streak_end |-> date]
             ELSE [s EXCEPT !.streak = streak]
    ELSE s

\* One iteration of the step-streak loop.
StreakStep(s, date, steps, goal_steps) ==
    IF steps >= goal_steps
    THEN LET streak == s.streak + 1
         IN  IF streak > s.max_streak
             THEN [streak |-> streak, max_streak |-> streak,
                   max_streak_end |-> date]
             ELSE [s EXCEPT !.streak = streak]
    ELSE [s EXCEPT !.streak = 0]

\* for date in dates: ..., from the i-th date on.
RECURSIVE StreakLoop(_, _, _, _, _)
StreakLoop(daily_stats, dates, i, s, goal_steps) ==
    IF i > Len(dates) THEN s
    ELSE StreakLoop(daily_stats, dates, i + 1,
                    StreakStep(s, dates[i],
                               DictGet(daily_stats[dates[i]], "steps", 0),
                               goal_steps),
                    goal_steps)

\* for date in reversed(dates): count until the threshold first fails,
\* from the i-th date backwards.
RECURSIVE CurrentStreak(_, _, _, _)
CurrentStreak(daily_stats, dates, i, goal_steps) ==
    IF i = 0 THEN 0
    ELSE IF DictGet(daily_stats[dates[i]], "steps", 0) >= goal_steps
         THEN 1 + CurrentStreak(daily_stats, dates, i - 1, goal_steps)
         ELSE 0

\* ex_days = [d for d in dates if exercise_min >= 30]
ExerciseDays(daily_stats) ==
    {d \in DOMAIN daily_stats :
        DictGet(daily_stats[d], "exercise_min", 0) >= 30}

\* find_streaks; exercise_consistency is the double len(ex_days) /
\* len(dates).
find_streaks(daily_stats, goal_steps) ==
    LET dates == SortedDates(daily_stats)
        s == StreakLoop(daily_stats, dates, 1,
                        [streak |-> 0, max_streak |-> 0,
                         max_streak_end |-> EmptyDate], goal_steps)
        ex_days == Cardinality(ExerciseDays(daily_stats))
    IN  [longest_step_streak |-> s.max_streak,
         longest_streak_end |-> s.max_streak_end,
         current_streak |-> CurrentStreak(daily_stats, dates, Len(dates),
                                          goal_steps),
         exercise_days |-> ex_days,
         total_days |-> Len(dates),
         exercise_consistency |->
             IF dates # <<>> THEN IntDiv[ex_days, Len(dates)] ELSE FloatZero]

\* record name -> metric name of the maximum records.
MaxMetrics ==
    [max_steps |-> "steps", max_distance |-> "distance_km",
     max_exercise |-> "exercise_min", max_flights |-> "flights",
     max_swim_distance |-> "swim_distance", highest_hrv |-> "hrv_avg",
     highest_hr |-> "hr_max"]

\* record name -> metric name of the minimum records.
MinMetrics == [lowest_resting_hr |-> "resting_hr", lowest_hr |-> "hr_min"]

\* The dates of vals = [(d, s[metric]) ... if s.get(metric, 0) > 0].
Qualifying(daily_stats, metric_name) ==
    {d \in DOMAIN daily_stats : DictGet(daily_stats[d], metric_name, 0) > 0}

\* max(vals, key=lambda x: x[1]): the first date with the greatest value.
BestMax(daily_stats, metric_name) ==
    LET ds == Qualifying(daily_stats, metric_name)
        best_date == CHOOSE d \in ds : \A e \in ds :
                        \/ daily_stats[d][metric_name] > daily_stats[e][metric_name]
                        \/ /\ daily_stats[d][metric_name] = daily_stats[e][metric_name]
                           /\ d <= e
    IN  [value |-> daily_stats[best_date][metric_name], date |-> best_date]

\* min(vals, key=lambda x: x[1]): the first date with the least value.
BestMin(daily_stats, metric_name) ==
    LET ds == Qualifying(daily_stats, metric_name)
        best_date == CHOOSE d \in ds : \A e \in ds :
                        \/ daily_stats[d][metric_name] < daily_stats[e][metric_name]
                        \/ /\ daily_stats[d][metric_name] = daily_stats[e][metric_name]
                           /\ d <= e
    IN  [value |-> daily_stats[best_date][metric_name], date |-> best_date]

\* find_personal_records: a record is set only under "if vals".
find_personal_records(daily_stats) ==
    LET names == {n \in DOMAIN MaxMetrics :
                     Qualifying(daily_stats, MaxMetrics[n]) # {}}
                 \cup {n \in DOMAIN MinMetrics :
                     Qualifying(daily_stats, MinMetrics[n]) # {}}
    IN  [n \in names |->
            IF n \in DOMAIN MaxMetrics
            THEN BestMax(daily_stats, MaxMetrics[n])
            ELSE BestMin(daily_stats, MinMetrics[n])]

\* s[-k] for k >= 1.
FromEnd(s, k) == s[Len(s) - k + 1]

\* recent = {d: s for d, s in daily_stats.items() if d > dates[-days]}
RecentPeriod_exclusive(daily_stats, days) ==
    {d \in DOMAIN daily_stats : d > FromEnd(SortedDates(daily_stats), days)}

\* recent = {d: s for d, s in daily_stats.items() if d >= dates[-days]}
RecentPeriod(daily_stats, days) ==
    {d \in DOMAIN daily_stats : d >= FromEnd(SortedDates(daily_stats), days)}

\* previous = {... if dates[-(days*2)] <= d < dates[-days]}
PreviousPeriod(daily_stats, days) ==
    LET dates == SortedDates(daily_stats)
    IN  {d \in DOMAIN daily_stats :
            FromEnd(dates, days * 2) <= d /\ d < FromEnd(dates, days)}

MetricsToCompare == {"steps", "exercise_min", "resting_hr", "hrv_avg", "vo2_max"}

\* The dates of [s[metric] for s in period.values()
\*               if metric in s and s[metric] > 0].
PositiveDates(daily_stats, period, metric) ==
    {d \in period : metric \in DOMAIN daily_stats[d] /\ daily_stats[d][metric] > 0}

\* statistics.mean over the dates: the double nearest to sum / count (the
\* int that statistics.mean returns for an integral mean has the same
\* value).
MeanOver(daily_stats, ds, metric) ==
    IntDiv[SetSum([d \in ds |-> daily_stats[d][metric]], ds), Cardinality(ds)]

\* The comparison entry of one metric: change = recent_avg - prev_avg and
\* pct_change = 100 * change / prev_avg if prev_avg else 0, in floats.
Comparison(recent_avg, prev_avg) ==
    LET WithChange(change) ==
            [recent_avg |-> recent_avg,
             previous_avg |-> prev_avg,
             change |-> change,
             pct_change |-> IF prev_avg.m # <<>>
                            THEN FloatDiv[FloatMulInt[change, 100], prev_avg]
                            ELSE FloatZero]
    IN  WithChange(FloatSub[recent_avg, prev_avg])

\* compare_recent_to_previous
compare_recent_to_previous(daily_stats, days) ==
    LET dates == SortedDates(daily_stats)
    IN  IF Len(dates) < days * 2 THEN <<>>
        ELSE LET recent == RecentPeriod(daily_stats, days)
                 previous == PreviousPeriod(daily_stats, days)
                 compared ==
                     {m \in MetricsToCompare :
                         /\ PositiveDates(daily_stats, recent, m) # {}
                         /\ PositiveDates(daily_stats, previous, m) # {}}
             IN  [m \in compared |->
                     Comparison(
                         MeanOver(daily_stats,
                                  PositiveDates(daily_stats, recent, m), m),
                         MeanOver(daily_stats,
                                  PositiveDates(daily_stats, previous, m), m))]

----------------------------------------------------------------------------
(* generate_personal_records, scripts/generate_dashboard_data.py            *)
(*                                                                         *)
(* data is a function from dates to the loaded days, filled in date order  *)
(* by load_date_range.                                                     *)

\* records before the first day.
InitialRecords ==
    [max_steps |-> [value |-> 0, date |-> NullDate],
     max_distance |-> [value |-> 0, date |-> NullDate],
     max_exercise |-> [value |-> 0, date |-> NullDate],
     lowest_resting_hr |-> [value |-> 999, date |-> NullDate],
     highest_hrv |-> [value |-> 0, date |-> NullDate]]

\* if value > records[name]['value']: records[name] = {value, date}
RaiseRecord(record, value, date) ==
    IF value > record.value THEN [value |-> value, date |-> date] ELSE record

\* if 0 < rhr < records[name]['value']: records[name] = {rhr, date}
LowerRecord(record, rhr, date) ==
    IF 0 < rhr /\ rhr < record.value THEN [value |-> rhr, date |-> date]
    ELSE record

\* The loop body for one day.
RecordsStep(records, date, day_data) ==
    LET totals == DictGet(day_data, "totals", <<>>)
        readings == DictGet(day_data, "readings", <<>>)
    IN  [max_steps |->
             RaiseRecord(records.max_steps, DictGet(totals, "steps", 0), date),
         max_distance |->
             RaiseRecord(records.max_distance,
                         DictGet(totals, "distance_km", 0), date),
         max_exercise |->
             RaiseRecord(records.max_exercise,
                         DictGet(totals, "exercise_minutes", 0), date),
         lowest_resting_hr |->
             LowerRecord(records.lowest_resting_hr,
                         DictGet(readings, "resting_hr", 0), date),
         highest_hrv |->
             RaiseRecord(records.highest_hrv,
                         DictGet(readings, "hrv_avg", 0), date)]

\* for date, day_data in data.items(): ..., from the i-th date on.
RECURSIVE RecordsLoop(_, _, _, _)
RecordsLoop(data, dates, i, records) ==
    IF i > Len(dates) THEN records
    ELSE RecordsLoop(data, dates, i + 1,
                     RecordsStep(records, dates[i], data[dates[i]]))

\* generate_personal_records, with the clean-up of the unset minimum.
generate_personal_records(data) ==
    LET records == RecordsLoop(data, SortedDates(data), 1, InitialRecords)
    IN  IF records.lowest_resting_hr.value = 999
        THEN [records EXCEPT !.lowest_resting_hr =
                                 [value |-> 0, date |-> NullDate]]
        ELSE records

----------------------------------------------------------------------------
(* The trend specification: one call of a streak, record or comparison      *)
(* function on a bounded history                                            *)

FirstDate == 20251001

MaxTrendDays == 6

MaxPeriod == 3

\* The statistics a day can have.
TrendDayKinds ==
    {<<>>,
     [steps |-> 0, exercise_min |-> 0],
     [steps |-> 8000, exercise_min |-> 20, hrv_avg |-> 40, resting_hr |-> 60],
     [steps |-> 12000, exercise_min |-> 45, resting_hr |-> 55, vo2_max |-> 45,
      hr_max |-> 150, hr_min |-> 48, distance_km |-> 9, flights |-> 12]}

\* The history whose i-th date has the statistics days[i].
History(days) == [d \in {FirstDate + i - 1 : i \in 1..Len(days)} |->
                     days[d - FirstDate + 1]]

TrendHistories == {History(days) : days \in SeqsUpTo(TrendDayKinds, MaxTrendDays)}

\* The history of test_finds_step_streak.
StreakExample ==
    History(<<[steps |-> 10000], [steps |-> 11000], [steps |-> 12000],
              [steps |-> 5000], [steps |-> 10000]>>)

GoalStepsInputs == {8000, 10000}

MaxGapDays == 5

\* Histories in which exports are missing: the days of any non-empty set
\* of the first MaxGapDays dates, each with 12000 or 5000 steps.
GapHistories ==
    UNION {[dates -> {[steps |-> 12000], [steps |-> 5000]}] :
              dates \in SUBSET {FirstDate + i : i \in 0..(MaxGapDays - 1)} \ {{}}}

StreakInputs ==
    {[kind |-> "streaks", daily_stats |-> h, goal_steps |-> g] :
        h \in TrendHistories \cup {StreakExample} \cup GapHistories,
        g \in GoalStepsInputs}

ComparisonInputs ==
    {[kind |-> "comparison", daily_stats |-> h, days |-> n] :
        h \in TrendHistories, n \in 1..MaxPeriod}

MaxRecordDays == 4

DeepRecordInputs ==
    {[kind |-> "deep_records", daily_stats |-> History(days)] :
        days \in SeqsUpTo(TrendDayKinds, MaxRecordDays)}

\* The loaded days a dashboard history can have.
LoadedDayKinds ==
    {<<>>,
     [totals |-> <<>>, readings |-> <<>>],
     [totals |-> [steps |-> 0, distance_km |-> 0, exercise_minutes |-> 0],
      readings |-> [resting_hr |-> 0, hrv_avg |-> 0]],
     [totals |-> [steps |-> 8000, distance_km |-> 6, exercise_minutes |-> 20],
      readings |-> [resting_hr |-> 60, hrv_avg |-> 40]],
     [totals |-> [steps |-> 12000, exercise_minutes |-> 45],
      readings |-> [resting_hr |-> 55]]}

DashboardRecordInputs ==
    {[kind |-> "dashboard_records", data |-> History(days)] :
        days \in SeqsUpTo(LoadedDayKinds, MaxRecordDays)}

InitTrends ==
    /\ fn = "input"
    /\ arg \in StreakInputs \cup ComparisonInputs \cup DeepRecordInputs
                \cup DashboardRecordInputs
    /\ ret = NoResult

FindStreaks ==
    /\ fn = "input"
    /\ arg.kind = "streaks"
    /\ fn' = "find_streaks"
    /\ ret' = find_streaks(arg.daily_stats, arg.goal_steps)
    /\ UNCHANGED arg

CompareRecentToPrevious ==
    /\ fn = "input"
    /\ arg.kind = "comparison"
    /\ fn' = "compare_recent_to_previous"
    /\ ret' = compare_recent_to_previous(arg.daily_stats, arg.days)
    /\ UNCHANGED arg

FindPersonalRecords ==
    /\ fn = "input"
    /\ arg.kind = "deep_records"
    /\ fn' = "find_personal_records"
    /\ ret' = find_personal_records(arg.daily_stats)
    /\ UNCHANGED arg

GeneratePersonalRecords ==
    /\ fn = "input"
    /\ arg.kind = "dashboard_records"
    /\ fn' = "generate_personal_records"
    /\ ret' = generate_personal_records(arg.data)
    /\ UNCHANGED arg

NextTrends ==
    \/ FindStreaks
    \/ CompareRecentToPrevious
    \/ FindPersonalRecords
    \/ GeneratePersonalRecords

SpecTrends == InitTrends /\ [][NextTrends]_vars

----------------------------------------------------------------------------
(* Properties of the trend engine                                           *)

StreaksReturned == fn = "find_streaks"

\* The days at positions a..b of the sorted dates all meet the threshold.
IsRun(daily_stats, dates, a, b, goal_steps) ==
    \A i \in a..b : DictGet(daily_stats[dates[i]], "steps", 0) >= goal_steps

\* Some run of k consecutive days exists (k = 0: the empty run).
HasRun(daily_stats, dates, k, goal_steps) ==
    k = 0 \/ \E b \in k..Len(dates) : IsRun(daily_stats, dates, b - k + 1, b, goal_steps)

\* The length of the longest run.
LongestRun(daily_stats, dates, goal_steps) ==
    CHOOSE k \in 0..Len(dates) :
        /\ HasRun(daily_stats, dates, k, goal_steps)
        /\ \A j \in (k + 1)..Len(dates) : ~HasRun(daily_stats, dates, j, goal_steps)

\* The length of the run that ends at the most recent date.
TrailingRun(daily_stats, dates, goal_steps) ==
    CHOOSE k \in 0..Len(dates) :
        /\ IsRun(daily_stats, dates, Len(dates) - k + 1, Len(dates), goal_steps)
        /\ k < Len(dates) => ~IsRun(daily_stats, dates, Len(dates) - k,
                                    Len(dates), goal_steps)

\* C11: find_streaks returns the length of the longest run of consecutive
\* days meeting the threshold, the last date of that run (of the earliest
\* one when several are longest, the empty string when there is none), and
\* the length of the run ending at the most recent date; the history of
\* steps 10000, 11000, 12000, 5000, 10000 with threshold 10000 gives 3, the
\* third date and 1; current_streak never exceeds longest_step_streak.
C11_StreaksAreLongestAndTrailingRuns ==
    StreaksReturned =>
        LET ds == arg.daily_stats
            g == arg.goal_steps
            dates == SortedDates(ds)
            longest == LongestRun(ds, dates, g)
        IN  /\ ret.longest_step_streak = longest
            /\ ret.longest_streak_end =
                   IF longest = 0 THEN EmptyDate
                   ELSE dates[CHOOSE b \in longest..Len(dates) :
                                /\ IsRun(ds, dates, b - longest + 1, b, g)
                                /\ \A c \in longest..(b - 1) :
                                       ~IsRun(ds, dates, c - longest + 1, c, g)]
            /\ ret.current_streak = TrailingRun(ds, dates, g)
            /\ ret.current_streak <= ret.longest_step_streak
            /\ (ds = StreakExample /\ g = 10000) =>
                   /\ ret.longest_step_streak = 3
                   /\ ret.longest_streak_end = FirstDate + 2
                   /\ ret.current_streak = 1

\* C11 witness: the example history has been scanned with threshold 10000.
C11_Witness ==
    /\ StreaksReturned
    /\ arg.daily_stats = StreakExample
    /\ arg.goal_steps = 10000
    /\ ret.longest_step_streak = 3
    /\ ret.current_streak = 1

\* The value and date the claim gives a maximum record over the days.
ClaimedMax(values) ==
    LET ds == {d \in DOMAIN values : values[d] > 0}
    IN  IF ds = {} THEN {[value |-> 0, date |-> NullDate]}
        ELSE {[value |-> values[d], date |-> d] :
                 d \in {e \in ds : \A f \in ds : values[e] >= values[f]}}

\* The value and date the claim gives a minimum record over the days.
ClaimedMin(values) ==
    LET ds == {d \in DOMAIN values : values[d] > 0}
    IN  IF ds = {} THEN {[value |-> 0, date |-> NullDate]}
        ELSE {[value |-> values[d], date |-> d] :
                 d \in {e \in ds : \A f \in ds : values[e] <= values[f]}}

\* The values of a metric of the deep-analysis statistics, by date.
DeepValues(daily_stats, metric) ==
    [d \in DOMAIN daily_stats |-> DictGet(daily_stats[d], metric, 0)]

\* The values of a metric of the loaded days, by date.
LoadedValues(data, part, metric) ==
    [d \in DOMAIN data |-> DictGet(DictGet(data[d], part, <<>>), metric, 0)]

\* C12: both personal-record scans report every tracked metric name, with
\* the maximum (minimum for resting heart rate) over all days and a date on
\* which it occurred, and with value 0 and a null date when no day has a
\* qualifying observation.
C12_EveryRecordReported ==
    /\ fn = "generate_personal_records" =>
           /\ DOMAIN ret = DOMAIN InitialRecords
           /\ ret.max_steps \in ClaimedMax(LoadedValues(arg.data, "totals", "steps"))
           /\ ret.max_distance \in
                  ClaimedMax(LoadedValues(arg.data, "totals", "distance_km"))
           /\ ret.max_exercise \in
                  ClaimedMax(LoadedValues(arg.data, "totals", "exercise_minutes"))
           /\ ret.lowest_resting_hr \in
                  ClaimedMin(LoadedValues(arg.data, "readings", "resting_hr"))
           /\ ret.highest_hrv \in
                  ClaimedMax(LoadedValues(arg.data, "readings", "hrv_avg"))
    /\ fn = "find_personal_records" =>
           /\ DOMAIN ret = DOMAIN MaxMetrics \cup DOMAIN MinMetrics
           /\ \A n \in DOMAIN MaxMetrics :
                  ret[n] \in ClaimedMax(DeepValues(arg.daily_stats, MaxMetrics[n]))
           /\ \A n \in DOMAIN MinMetrics :
                  ret[n] \in ClaimedMin(DeepValues(arg.daily_stats, MinMetrics[n]))

ComparisonReturned == fn = "compare_recent_to_previous"

\* The dates at positions a..b of the sorted dates.
DatesAt(dates, a, b) == {dates[i] : i \in a..b}

\* C13: compare_recent_to_previous returns an empty result when fewer than
\* 2*days dates exist; otherwise it compares exactly the last `days` dates
\* with exactly the `days` dates immediately before them: the periods are
\* disjoint, contiguous and of equal size, and the returned averages are the
\* means over them.
C13_PeriodsAreLastAndPrecedingDays ==
    ComparisonReturned =>
        LET ds == arg.daily_stats
            days == arg.days
            dates == SortedDates(ds)
            n == Len(dates)
            last == DatesAt(dates, n - days + 1, n)
            before == DatesAt(dates, n - 2 * days + 1, n - days)
        IN  IF n < 2 * days THEN ret = <<>>
            ELSE /\ RecentPeriod(ds, days) = last
                 /\ PreviousPeriod(ds, days) = before
                 /\ last \cap before = {}
                 /\ Cardinality(last) = days
                 /\ Cardinality(before) = days
                 /\ \A m \in MetricsToCompare :
                        LET rs == PositiveDates(ds, last, m)
                            ps == PositiveDates(ds, before, m)
                        IN  IF rs = {} \/ ps = {} THEN m \notin DOMAIN ret
                            ELSE /\ m \in DOMAIN ret
                                 /\ ret[m].recent_avg = MeanOver(ds, rs, m)
                                 /\ ret[m].previous_avg = MeanOver(ds, ps, m)

\* C13 witness: a history longer than both periods has been compared, and
\* the two step averages differ.
C13_Witness ==
    /\ ComparisonReturned
    /\ arg.days = 2
    /\ Cardinality(DOMAIN arg.daily_stats) > 4
    /\ "steps" \in DOMAIN ret
    /\ ret.steps.recent_avg = FloatOf[12000]
    /\ ret.steps.previous_avg = FloatOf[8000]

----------------------------------------------------------------------------
(* generate_weekly_comparison, scripts/generate_dashboard_data.py           *)
(*                                                                         *)
(* A date string "YYYY-MM-DD" is the integer YYYYMMDD; a week key          *)
(* "YYYY-Www" is the integer YYYYww, whose order is the order of the       *)
(* strings. distance_km is in hundredths of a kilometre, avg_distance in   *)
(* tenths.                                                                 *)

\* datetime.strptime(date_str, "%Y-%m-%d")
YearOf(date) == date \div 10000

MonthOf(date) == (date \div 100) % 100

DayOf(date) == date % 100

IsLeap(year) == year % 4 = 0 /\ (year % 100 # 0 \/ year % 400 = 0)

\* Days of the year before the first day of the month.
DaysBeforeMonth(year, month) ==
    <<0, 31, 59, 90, 120, 151, 181, 212, 243, 273, 304, 334>>[month]
    + (IF month > 2 /\ IsLeap(year) THEN 1 ELSE 0)

\* date.toordinal(): days since 0001-01-01, which is day 1.
Ordinal(year, month, day) ==
    LET y == year - 1
    IN  y * 365 + y \div 4 - y \div 100 + y \div 400
        + DaysBeforeMonth(year, month) + day

\* The ordinal of the Monday of ISO week 1 of the year.
IsoWeek1Monday(year) ==
    LET firstday == Ordinal(year, 1, 1)
        firstweekday == (firstday + 6) % 7
        week1monday == firstday - firstweekday
    IN  IF firstweekday > 3 THEN week1monday + 7 ELSE week1monday

\* date_obj.isocalendar(): the ISO year and ISO week number.
IsoCalendar(date) ==
    LET year == YearOf(date)
        today == Ordinal(year, MonthOf(date), DayOf(date))
        week == (today - IsoWeek1Monday(year)) \div 7
    IN  IF today < IsoWeek1Monday(year)
        THEN [year |-> year - 1,
              week |-> (today - IsoWeek1Monday(year - 1)) \div 7 + 1]
        ELSE IF week >= 52 /\ today >= IsoWeek1Monday(year + 1)
        THEN [year |-> year + 1, week |-> 1]
        ELSE [year |-> year, week |-> week + 1]

\* week_key = f"{year}-W{week_num:02d}" with year = date_obj.year.
WeekKey(date) == YearOf(date) * 100 + IsoCalendar(date).week

\* weeks[week_key]['dates'], as a set, for every key that has a date.
WeekBuckets(data) ==
    [k \in {WeekKey(d) : d \in DOMAIN data} |->
        {d \in DOMAIN data : WeekKey(d) = k}]

\* week_info[m]: the totals of the bucket in the order of sorted_dates.
BucketColumn(data, bucket, key) ==
    LET dates == Sorted(bucket)
    IN  [i \in 1..Len(dates) |-> DictGet(data[dates[i]].totals, key, 0)]

\* sum(week_info[m]) / len(week_info[m]) over the totals of the bucket.
BucketMean(data, bucket, key) ==
    <<SetSum([d \in bucket |-> DictGet(data[d].totals, key, 0)], bucket),
      Cardinality(bucket)>>

MaxWeeks == 12

\* sorted(weeks.keys())[-12:]
LastWeeks(keys) ==
    IF Len(keys) <= MaxWeeks THEN keys
    ELSE SubSeq(keys, Len(keys) - MaxWeeks + 1, Len(keys))

generate_weekly_comparison(data) ==
    LET weeks == WeekBuckets(data)
        listed == LastWeeks(Sorted(DOMAIN weeks))
        mean(i, key) == BucketMean(data, weeks[listed[i]], key)
    IN  [weeks |-> listed,
         avg_steps |->
             [i \in 1..Len(listed) |->
                 PyInt(mean(i, "steps")[1], mean(i, "steps")[2])],
         avg_distance |->
             [i \in 1..Len(listed) |->
                 RoundedMean(BucketColumn(data, weeks[listed[i]],
                                          "distance_km"))],
         avg_energy |->
             [i \in 1..Len(listed) |->
                 PyInt(mean(i, "active_energy_kcal")[1],
                       mean(i, "active_energy_kcal")[2])],
         avg_exercise |->
             [i \in 1..Len(listed) |->
                 PyInt(mean(i, "exercise_minutes")[1],
                       mean(i, "exercise_minutes")[2])]]

----------------------------------------------------------------------------
(* The weekly specification: one call of generate_weekly_comparison         *)

\* Dates around the turn of the year 2024/2025, and the first Monday of 2024.
BoundaryDates ==
    {20240101, 20241223, 20241229, 20241230, 20241231, 20250101, 20250105,
     20250106}

\* The Mondays that follow 2025-01-06.
Mondays ==
    <<20250113, 20250120, 20250127, 20250203, 20250210, 20250217, 20250224,
      20250303, 20250310, 20250317, 20250324, 20250331, 20250407, 20250414,
      20250421, 20250428>>

MaxMondays == 13

\* The totals of a loaded day: the same every day, or alternating by day.
TotalsOn(date, alternating) ==
    IF alternating /\ DayOf(date) % 2 = 0
    THEN [steps |-> 12000, distance_km |-> 110, exercise_minutes |-> 45]
    ELSE [steps |-> 8000, distance_km |-> 635, active_energy_kcal |-> 400,
          exercise_minutes |-> 20]

LoadedOn(dates, alternating) ==
    [d \in dates |-> [totals |-> TotalsOn(d, alternating)]]

WeeklyDateSets ==
    SUBSET BoundaryDates
    \cup {b \cup {Mondays[i] : i \in 1..n} :
             b \in {{}, {20241230, 20250101, 20250106}}, n \in 1..MaxMondays}

WeeklyInputs ==
    {[data |-> LoadedOn(dates, alt)] : dates \in WeeklyDateSets, alt \in BOOLEAN}

InitWeekly == fn = "input" /\ arg \in WeeklyInputs /\ ret = NoResult

GenerateWeeklyComparison ==
    /\ fn = "input"
    /\ fn' = "generate_weekly_comparison"
    /\ ret' = generate_weekly_comparison(arg.data)
    /\ UNCHANGED arg

NextWeekly == GenerateWeeklyComparison

SpecWeekly == InitWeekly /\ [][NextWeekly]_vars

----------------------------------------------------------------------------
(* Properties of the weekly comparison                                      *)

WeeklyReturned == fn = "generate_weekly_comparison"

\* The ISO week-numbering year and ISO week of a date.
IsoWeekOf(date) == <<IsoCalendar(date).year, IsoCalendar(date).week>>

\* C14: generate_weekly_comparison puts two dates in the same bucket exactly
\* when they fall in the same ISO week of the same ISO week-numbering year
\* (the keys are ISO (year, week) pairs), lists the buckets in chronological
\* order and keeps only the 12 most recent buckets.
C14_BucketsAreIsoWeeks ==
    WeeklyReturned =>
        LET data == arg.data
            buckets == WeekBuckets(data)
            listed == {ret.weeks[i] : i \in 1..Len(ret.weeks)}
        IN  /\ \A d, e \in DOMAIN data :
                   (WeekKey(d) = WeekKey(e)) <=> (IsoWeekOf(d) = IsoWeekOf(e))
            /\ \A d \in DOMAIN data :
                   WeekKey(d) = IsoWeekOf(d)[1] * 100 + IsoWeekOf(d)[2]
            /\ \A i, j \in 1..Len(ret.weeks) :
                   i < j => \A d \in buckets[ret.weeks[i]],
                               e \in buckets[ret.weeks[j]] : d < e
            /\ Len(ret.weeks) =
                   Min(MaxWeeks, Cardinality({IsoWeekOf(d) : d \in DOMAIN data}))
            /\ \A k \in (DOMAIN buckets) \ listed :
                   \A l \in listed :
                       \A d \in buckets[k], e \in buckets[l] : d < e

----------------------------------------------------------------------------
(* find_correlations and detect_anomalies, scripts/deep_analysis.py         *)
(*                                                                         *)
(* Medians are fractions <<numerator, denominator>>; means and their        *)
(* difference are doubles.                                                  *)

\* The positions i of range(len(dates) - 1) whose day has a positive
\* today_key and whose next day has tomorrow_key.
PairPositions(daily_stats, dates, today_key, tomorrow_key) ==
    {i \in 1..(Len(dates) - 1) :
        /\ DictGet(daily_stats[dates[i]], today_key, 0) > 0
        /\ tomorrow_key \in DOMAIN daily_stats[dates[i + 1]]}

\* pairs, in date order: (today[today_key], tomorrow[tomorrow_key]).
CollectPairs(daily_stats, today_key, tomorrow_key) ==
    LET dates == SortedDates(daily_stats)
        at == Sorted(PairPositions(daily_stats, dates, today_key, tomorrow_key))
    IN  [j \in 1..Len(at) |->
            <<daily_stats[dates[at[j]]][today_key],
              daily_stats[dates[at[j] + 1]][tomorrow_key]>>]

\* sorted(pairs, key=lambda x: x[0]): a stable sort by the first component.
RECURSIVE SortedByFirst(_)
SortedByFirst(pairs) ==
    IF pairs = <<>> THEN <<>>
    ELSE LET rest == SortedByFirst(SubSeq(pairs, 1, Len(pairs) - 1))
             p == pairs[Len(pairs)]
             k == Cardinality({i \in 1..Len(rest) : rest[i][1] <= p[1]})
         IN  SubSeq(rest, 1, k) \o <<p>> \o SubSeq(rest, k + 1, Len(rest))

\* statistics.median of the first components of a non-empty list of pairs.
MedianOfFirst(pairs) ==
    LET s == SortedByFirst(pairs)
        n == Len(s)
    IN  IF n % 2 = 1 THEN <<s[(n + 1) \div 2][1], 1>>
        ELSE <<s[n \div 2][1] + s[n \div 2 + 1][1], 2>>

\* The second components of the pairs at the given positions.
SecondAt(pairs, at) == [j \in 1..Len(at) |-> pairs[at[j]][2]]

\* high_ex_rhr = [p[1] for p in pairs if p[0] >= median_ex]
HighExercise_inclusive(pairs, median_ex) ==
    SecondAt(pairs, Sorted({i \in 1..Len(pairs) :
                               pairs[i][1] * median_ex[2] >= median_ex[1]}))

\* high_ex_rhr = [p[1] for p in pairs if p[0] > median_ex]
HighExercise(pairs, median_ex) ==
    SecondAt(pairs, Sorted({i \in 1..Len(pairs) :
                               pairs[i][1] * median_ex[2] > median_ex[1]}))

\* low_ex_rhr = [p[1] for p in pairs if p[0] <= median_ex]
LowExercise(pairs, median_ex) ==
    SecondAt(pairs, Sorted({i \in 1..Len(pairs) :
                               pairs[i][1] * median_ex[2] <= median_ex[1]}))

\* statistics.mean of a non-empty list of numbers.
MeanOf(xs) == IntDiv[SeqSum(xs), Len(xs)]

MinPairs == 10

\* The exercise_to_rhr entry: {} when it is not set.
ExerciseToRhr(daily_stats) ==
    LET pairs == CollectPairs(daily_stats, "exercise_min", "resting_hr")
    IN  IF Len(pairs) > MinPairs
        THEN LET median_ex == MedianOfFirst(pairs)
                 high_ex_rhr == HighExercise(pairs, median_ex)
                 low_ex_rhr == LowExercise(pairs, median_ex)
                 WithMeans(high_mean, low_mean) ==
                     [exercise_to_rhr |->
                         [high_exercise_threshold |-> median_ex,
                          high_exercise_next_rhr |-> high_mean,
                          low_exercise_next_rhr |-> low_mean,
                          difference |-> FloatSub[low_mean, high_mean]]]
             IN  IF high_ex_rhr # <<>> /\ low_ex_rhr # <<>>
                 THEN WithMeans(MeanOf(high_ex_rhr), MeanOf(low_ex_rhr))
                 ELSE <<>>
        ELSE <<>>

\* s[a:b] for 0 <= a <= b <= len(s).
Slice(s, a, b) == SubSeq(s, a + 1, b)

\* terciles whose second cut is at 2*(n//3).
Terciles_doubledThird(sorted_pairs) ==
    LET n == Len(sorted_pairs)
    IN  <<Slice(sorted_pairs, 0, n \div 3),
          Slice(sorted_pairs, n \div 3, 2 * (n \div 3)),
          Slice(sorted_pairs, 2 * (n \div 3), n)>>

\* terciles = [sorted_pairs[:n//3], sorted_pairs[n//3:2*n//3],
\*             sorted_pairs[2*n//3:]]
Terciles(sorted_pairs) ==
    LET n == Len(sorted_pairs)
    IN  <<Slice(sorted_pairs, 0, n \div 3),
          Slice(sorted_pairs, n \div 3, (2 * n) \div 3),
          Slice(sorted_pairs, (2 * n) \div 3, n)>>

\* statistics.mean([p[1] for p in tercile]) if tercile else 0
TercileMean(tercile) ==
    IF tercile # <<>> THEN MeanOf([i \in 1..Len(tercile) |-> tercile[i][2]])
    ELSE FloatZero

\* The steps_to_hrv entry: {} when it is not set.
StepsToHrv(daily_stats) ==
    LET pairs == CollectPairs(daily_stats, "steps", "hrv_avg")
    IN  IF Len(pairs) > MinPairs
        THEN LET terciles == Terciles(SortedByFirst(pairs))
             IN  [steps_to_hrv |->
                     [low_steps_hrv |-> TercileMean(terciles[1]),
                      medium_steps_hrv |-> TercileMean(terciles[2]),
                      high_steps_hrv |-> TercileMean(terciles[3])]]
        ELSE <<>>

find_correlations(daily_stats) ==
    ExerciseToRhr(daily_stats) @@ StepsToHrv(daily_stats)

\* [(d, s[key]) for d, s in daily_stats.items() if key in s], in date order.
SeriesOf(daily_stats, key) ==
    LET at == Sorted({d \in DOMAIN daily_stats : key \in DOMAIN daily_stats[d]})
    IN  [j \in 1..Len(at) |-> <<at[j], daily_stats[at[j]][key]>>]

\* The values of a series.
ValuesOf(series) == [j \in 1..Len(series) |-> series[j][2]]

RECURSIVE SumSq(_)
SumSq(xs) == IF xs = <<>> THEN 0 ELSE Head(xs) * Head(xs) + SumSq(Tail(xs))

\* n times the sum of the squared deviations from the mean:
\* n * sum(x^2) - sum(x)^2.
Spread(xs) == Len(xs) * SumSq(xs) - SeqSum(xs) * SeqSum(xs)

\* The square of statistics.stdev is Spread / (n * (n - 1)).
StdevDivisor(xs) == Len(xs) - 1

\* h < avg - 1.5 * std, with avg = sum / n and std^2 = Spread /
\* (n * StdevDivisor): both sides times n, squared, times 4 * StdevDivisor.
IsLow(h, xs) ==
    LET behind == SeqSum(xs) - Len(xs) * h
    IN  /\ behind > 0
        /\ 4 * StdevDivisor(xs) * behind * behind > 9 * Len(xs) * Spread(xs)

\* h > avg + 1.5 * std
IsHigh(h, xs) ==
    LET ahead == Len(xs) * h - SeqSum(xs)
    IN  /\ ahead > 0
        /\ 4 * StdevDivisor(xs) * ahead * ahead > 9 * Len(xs) * Spread(xs)

\* sorted(series, key=lambda x: x[1]): stable, ascending by value.
RECURSIVE SortedByValue(_)
SortedByValue(series) ==
    IF series = <<>> THEN <<>>
    ELSE LET rest == SortedByValue(SubSeq(series, 1, Len(series) - 1))
             p == series[Len(series)]
             k == Cardinality({i \in 1..Len(rest) : rest[i][2] <= p[2]})
         IN  SubSeq(rest, 1, k) \o <<p>> \o SubSeq(rest, k + 1, Len(rest))

\* sorted(series, key=lambda x: -x[1]): stable, descending by value.
RECURSIVE SortedByValueDesc(_)
SortedByValueDesc(series) ==
    IF series = <<>> THEN <<>>
    ELSE LET rest == SortedByValueDesc(SubSeq(series, 1, Len(series) - 1))
             p == series[Len(series)]
             k == Cardinality({i \in 1..Len(rest) : rest[i][2] >= p[2]})
         IN  SubSeq(rest, 1, k) \o <<p>> \o SubSeq(rest, k + 1, Len(rest))

\* The entries of the series at the positions that satisfy the test, in
\* the order of the series.
Flagged(series, positions) ==
    LET at == Sorted(positions)
    IN  [j \in 1..Len(at) |-> series[at[j]]]

MaxAnomalies == 10

MinObservations == 10

\* s[:10]
FirstAnomalies(s) == SubSeq(s, 1, Min(Len(s), MaxAnomalies))

\* The low_hrv_days and hrv_avg entries: {} when they are not set.
LowHrvDays(daily_stats) ==
    LET hrv_data == SeriesOf(daily_stats, "hrv_avg")
        xs == ValuesOf(hrv_data)
        low_hrv == Flagged(hrv_data, {j \in 1..Len(xs) : IsLow(xs[j], xs)})
    IN  IF Len(hrv_data) > MinObservations /\ low_hrv # <<>>
        THEN [low_hrv_days |-> FirstAnomalies(SortedByValue(low_hrv)),
              hrv_avg |-> MeanOf(xs)]
        ELSE <<>>

\* The high_intensity_days entry: {} when it is not set.
HighIntensityDays(daily_stats) ==
    LET hr_max_data == SeriesOf(daily_stats, "hr_max")
        xs == ValuesOf(hr_max_data)
        high_intensity ==
            Flagged(hr_max_data, {j \in 1..Len(xs) : IsHigh(xs[j], xs)})
    IN  IF Len(hr_max_data) > MinObservations /\ high_intensity # <<>>
        THEN [high_intensity_days |->
                  FirstAnomalies(SortedByValueDesc(high_intensity))]
        ELSE <<>>

detect_anomalies(daily_stats) ==
    LowHrvDays(daily_stats) @@ HighIntensityDays(daily_stats)

----------------------------------------------------------------------------
(* The correlation specification: one call of find_correlations or          *)
(* detect_anomalies on a bounded history                                    *)

\* The i-th date of a history that starts on FirstDate (October has 31
\* days).
DateAt(i) == IF i <= 31 THEN FirstDate + i - 1 ELSE FirstDate + 100 + i - 32

\* The i-th value of a pattern repeated over the days.
Cycle(pattern, i) == pattern[((i - 1) % Len(pattern)) + 1]

\* A dict with the given keys, without those whose value is Absent.
Present(day) == [k \in {x \in DOMAIN day : day[x] # Absent} |-> day[k]]

MinCorrDays == 10

MaxCorrDays == 15

ExercisePatterns ==
    {<<30>>, <<20, 40>>, <<0, 30, Absent, 60>>, <<10, 20, 30, 40, 50>>}

RestingHrPatterns == {<<60>>, <<58, 62, 55>>, <<Absent, 60, 55>>}

StepsPatterns ==
    {<<8000>>, <<5000, 12000>>, <<0, 6000, 9000, 12000>>,
     <<3000, 6000, 9000, 12000, 15000, 4000, 7000>>}

HrvAvgPatterns == {<<40>>, <<35, 45, 50>>, <<Absent, 40>>}

CorrelationHistory(n, e, r, st, h) ==
    [d \in {DateAt(i) : i \in 1..n} |->
        LET i == CHOOSE j \in 1..n : DateAt(j) = d
        IN  Present([exercise_min |-> Cycle(e, i), resting_hr |-> Cycle(r, i),
                     steps |-> Cycle(st, i), hrv_avg |-> Cycle(h, i)])]

\* Positions of the history whose date has no export.
MissingPositions == {2, 6}

\* The history without the day at position skip: a missing export.
WithoutDay(daily_stats, skip) ==
    [d \in DOMAIN daily_stats \ {DateAt(skip)} |-> daily_stats[d]]

\* Thirteen recorded days, 1 October and 3 to 14 October: only the first day
\* has the long exercise and only 3 October the low resting HR.
GapCorrExample ==
    [d \in {DateAt(i) : i \in {1} \cup 3..14} |->
        [exercise_min |-> IF d = DateAt(1) THEN 60 ELSE 30,
         resting_hr |-> IF d = DateAt(3) THEN 50 ELSE 60,
         steps |-> 8000, hrv_avg |-> 40]]

GapCorrelationHistories ==
    {WithoutDay(CorrelationHistory(n, e, r, st, h), skip) :
        n \in {MaxCorrDays - 2, MaxCorrDays}, skip \in MissingPositions,
        e \in ExercisePatterns, r \in RestingHrPatterns,
        st \in {<<8000>>}, h \in HrvAvgPatterns}
    \cup {GapCorrExample}

CorrelationInputs ==
    {[kind |-> "correlations",
      daily_stats |-> CorrelationHistory(n, e, r, st, h)] :
        n \in MinCorrDays..MaxCorrDays, e \in ExercisePatterns,
        r \in RestingHrPatterns, st \in StepsPatterns, h \in HrvAvgPatterns}
    \cup {[kind |-> "correlations", daily_stats |-> g] :
              g \in GapCorrelationHistories}

MinAnomalyDays == 9

MaxAnomalyDays == 40

MaxOutliers == 12

LowHrvBases == {15, 30, 37}

\* n days whose first k are outliers: an HRV of low, low + 1 or low + 2 and
\* a maximum heart rate of 178..180; the other days have 40 or 41 and 140 or
\* 141.
AnomalyHistory(n, k, low) ==
    [d \in {DateAt(i) : i \in 1..n} |->
        LET i == CHOOSE j \in 1..n : DateAt(j) = d
        IN  IF i <= k
            THEN [hrv_avg |-> low + (i % 3), hr_max |-> 180 - (i % 3)]
            ELSE [hrv_avg |-> 40 + (i % 2), hr_max |-> 140 + (i % 2)]]

AnomalyInputs ==
    {[kind |-> "anomalies", daily_stats |-> AnomalyHistory(n, k, low)] :
        n \in MinAnomalyDays..MaxAnomalyDays, k \in 0..MaxOutliers,
        low \in LowHrvBases}

InitCorr ==
    fn = "input" /\ arg \in CorrelationInputs \cup AnomalyInputs /\ ret = NoResult

FindCorrelations ==
    /\ fn = "input"
    /\ arg.kind = "correlations"
    /\ fn' = "find_correlations"
    /\ ret' = find_correlations(arg.daily_stats)
    /\ UNCHANGED arg

DetectAnomalies ==
    /\ fn = "input"
    /\ arg.kind = "anomalies"
    /\ fn' = "detect_anomalies"
    /\ ret' = detect_anomalies(arg.daily_stats)
    /\ UNCHANGED arg

NextCorr == FindCorrelations \/ DetectAnomalies

SpecCorr == InitCorr /\ [][NextCorr]_vars

----------------------------------------------------------------------------
(* Properties of the correlations and anomalies                             *)

CorrelationsReturned == fn = "find_correlations"

\* The collected (exercise, next-day resting HR) pairs of the input.
ExercisePairs == CollectPairs(arg.daily_stats, "exercise_min", "resting_hr")

\* The collected (steps, next-day HRV) pairs of the input.
StepsPairs == CollectPairs(arg.daily_stats, "steps", "hrv_avg")

\* The k-th smallest of the first components of the pairs.
KthSmallest(pairs, k) ==
    CHOOSE v \in {pairs[i][1] : i \in 1..Len(pairs)} :
        /\ Cardinality({i \in 1..Len(pairs) : pairs[i][1] < v}) < k
        /\ Cardinality({i \in 1..Len(pairs) : pairs[i][1] <= v}) >= k

\* Twice the median of the first components of the pairs.
TwiceMedian(pairs) ==
    LET n == Len(pairs)
    IN  IF n % 2 = 1 THEN 2 * KthSmallest(pairs, (n + 1) \div 2)
        ELSE KthSmallest(pairs, n \div 2) + KthSmallest(pairs, n \div 2 + 1)

\* The positions of the pairs whose exercise is strictly above the median.
AboveMedian(pairs) ==
    {i \in 1..Len(pairs) : 2 * pairs[i][1] > TwiceMedian(pairs)}

\* The mean of the second components of the pairs at the positions.
MeanSecond(pairs, at) ==
    IntDiv[SetSum([i \in at |-> pairs[i][2]], at), Cardinality(at)]

\* The entry splits the pairs at the median: the high bucket holds the pairs
\* strictly above it, the low bucket the others, and difference is the mean
\* of the low bucket minus that of the high bucket.
SplitAtMedian(entry, pairs) ==
    LET high == AboveMedian(pairs)
        low == (1..Len(pairs)) \ high
    IN  /\ entry.high_exercise_next_rhr = MeanSecond(pairs, high)
        /\ entry.low_exercise_next_rhr = MeanSecond(pairs, low)
        /\ entry.difference = FloatSub[MeanSecond(pairs, low),
                                      MeanSecond(pairs, high)]

\* C15 as stated: exercise_to_rhr is omitted with at most 10 collected
\* pairs and reported whenever more than 10 are collected, split at the
\* median of the exercise values.
C15_ReportedWithMoreThanTenPairs ==
    CorrelationsReturned =>
        IF Len(ExercisePairs) <= MinPairs
        THEN "exercise_to_rhr" \notin DOMAIN ret
        ELSE /\ "exercise_to_rhr" \in DOMAIN ret
             /\ SplitAtMedian(ret.exercise_to_rhr, ExercisePairs)

\* C15 amended: exercise_to_rhr is reported exactly when more than 10 pairs
\* are collected and some pair has an exercise value strictly above the
\* median (with all values at or below the median the high bucket is empty
\* and the entry is omitted); when reported it is split at the median.
C15_ReportedWhenHighBucketNonEmpty ==
    CorrelationsReturned =>
        IF Len(ExercisePairs) <= MinPairs \/ AboveMedian(ExercisePairs) = {}
        THEN "exercise_to_rhr" \notin DOMAIN ret
        ELSE /\ "exercise_to_rhr" \in DOMAIN ret
             /\ SplitAtMedian(ret.exercise_to_rhr, ExercisePairs)

\* C15 witness: more than 10 pairs were split into two buckets with
\* different mean next-day resting heart rates.
C15_Witness ==
    /\ CorrelationsReturned
    /\ Len(ExercisePairs) > MinPairs
    /\ "exercise_to_rhr" \in DOMAIN ret
    /\ ret.exercise_to_rhr.difference.m # <<>>
    /\ Cardinality(AboveMedian(ExercisePairs)) * 2 < Len(ExercisePairs)

\* Number of occurrences of x in the sequence.
Occurrences(x, seq) == Cardinality({i \in 1..Len(seq) : seq[i] = x})

\* C16: with more than 10 collected (steps, next-day HRV) pairs the
\* terciles partition the pairs, their sizes are equal or differ by at most
\* one when the count is not divisible by 3, no step count of a lower
\* tercile exceeds one of a higher tercile, and the reported means are the
\* means of the terciles; with at most 10 pairs steps_to_hrv is omitted.
C16_TercilesPartitionInOrder ==
    CorrelationsReturned =>
        IF Len(StepsPairs) <= MinPairs
        THEN "steps_to_hrv" \notin DOMAIN ret
        ELSE LET n == Len(StepsPairs)
                 t == Terciles(SortedByFirst(StepsPairs))
                 all == t[1] \o t[2] \o t[3]
             IN  /\ "steps_to_hrv" \in DOMAIN ret
                 /\ Len(all) = n
                 /\ \A i \in 1..n :
                        Occurrences(StepsPairs[i], all)
                            = Occurrences(StepsPairs[i], StepsPairs)
                 /\ \A a, b \in 1..3 :
                        /\ Len(t[a]) - Len(t[b]) <= 1
                        /\ n % 3 = 0 => Len(t[a]) = Len(t[b])
                        /\ a < b => \A i \in 1..Len(t[a]), j \in 1..Len(t[b]) :
                                        t[a][i][1] <= t[b][j][1]
                 /\ ret.steps_to_hrv.low_steps_hrv = TercileMean(t[1])
                 /\ ret.steps_to_hrv.medium_steps_hrv = TercileMean(t[2])
                 /\ ret.steps_to_hrv.high_steps_hrv = TercileMean(t[3])

\* C16 witness: 11 pairs with different step counts were split into
\* terciles.
C16_Witness ==
    /\ CorrelationsReturned
    /\ Len(StepsPairs) = 11
    /\ "steps_to_hrv" \in DOMAIN ret
    /\ Cardinality({StepsPairs[i][1] : i \in 1..Len(StepsPairs)}) > 3
    /\ ret.steps_to_hrv.low_steps_hrv # ret.steps_to_hrv.high_steps_hrv

AnomaliesReturned == fn = "detect_anomalies"

\* The entries of the series that lie more than 1.5 population standard
\* deviations below (sign = 1) or above (sign = -1) the population mean:
\* sign * (sum - n * h) > 0 and (sum - n * h)^2 / n^2 > 2.25 * Spread / n^2.
PopulationOutliers(series, sign) ==
    LET xs == ValuesOf(series)
    IN  {series[j] : j \in {i \in 1..Len(xs) :
            LET behind == sign * (SeqSum(xs) - Len(xs) * xs[i])
            IN  behind > 0 /\ 4 * behind * behind > 9 * Spread(xs)}}

\* The listed days are the (at most 10) most severe of the outliers, the
\* most severe first; no outliers, or 10 or fewer observations: no entry.
ListsMostSevere(key, series, sign) ==
    LET outliers == PopulationOutliers(series, sign)
    IN  IF Len(series) <= MinObservations \/ outliers = {}
        THEN key \notin DOMAIN ret
        ELSE /\ key \in DOMAIN ret
             /\ Len(ret[key]) = Min(MaxAnomalies, Cardinality(outliers))
             /\ \A i \in 1..Len(ret[key]) : ret[key][i] \in outliers
             /\ \A i, j \in 1..Len(ret[key]) :
                    i < j => /\ ret[key][i] # ret[key][j]
                             /\ sign * ret[key][i][2] <= sign * ret[key][j][2]
             /\ \A o \in outliers :
                    \/ \E i \in 1..Len(ret[key]) : ret[key][i] = o
                    \/ \A i \in 1..Len(ret[key]) :
                           sign * ret[key][i][2] <= sign * o[2]

\* C17: with more than 10 observations detect_anomalies flags exactly the
\* days whose HRV is more than 1.5 population standard deviations below the
\* population mean (maximum heart rate: above) and returns at most 10 of
\* them, the most severe first; with 10 or fewer observations it flags
\* nothing.
C17_FlagsPopulationOutliers ==
    AnomaliesReturned =>
        /\ ListsMostSevere("low_hrv_days",
                           SeriesOf(arg.daily_stats, "hrv_avg"), 1)
        /\ ListsMostSevere("high_intensity_days",
                           SeriesOf(arg.daily_stats, "hr_max"), -1)

----------------------------------------------------------------------------
(* Workout parsing, scripts/hevy_analysis.py                                *)
(*                                                                         *)
(* A weight read from a set is in tenths of its unit. The weight in        *)
(* kilograms and the running volume are doubles; rounded weights and       *)
(* volumes are in tenths of a kilogram, and the total volume of a workout, *)
(* which is not rounded, is a double. An absent key and a None value are   *)
(* the same to every "x.get(k) or ..." chain, so None values are absent    *)
(* keys here.                                                              *)

\* A list element that is not a dict.
NotADict == [not_a_dict |-> TRUE]

\* isinstance(x, dict) for a list element.
IsDict(x) == x # NotADict

\* d.get(keys[1]) or d.get(keys[2]) or ... or 0, on numbers.
RECURSIVE FirstNonZero(_, _)
FirstNonZero(d, keys) ==
    IF keys = <<>> THEN 0
    ELSE IF DictGet(d, Head(keys), 0) # 0 THEN d[Head(keys)]
    ELSE FirstNonZero(d, Tail(keys))

\* d.get(keys[1]) or d.get(keys[2]) or ... or default, on strings.
RECURSIVE FirstNonEmpty(_, _, _)
FirstNonEmpty(d, keys, default) ==
    IF keys = <<>> THEN default
    ELSE IF DictGet(d, Head(keys), "") # "" THEN d[Head(keys)]
    ELSE FirstNonEmpty(d, Tail(keys), default)

\* The strings of the model that str.lower() changes.
UpperCased == [Working |-> "working", Chest |-> "chest", Other |-> "other"]

\* s.lower()
Lower(s) == IF s \in DOMAIN UpperCased THEN UpperCased[s] ELSE s

\* The groups of MUSCLE_GROUP_KEYWORDS, in the order of the dict.
MuscleGroupOrder ==
    <<"chest", "back", "shoulders", "arms", "legs", "core", "cardio">>

\* The groups that have a keyword occurring in name.lower(), for the
\* exercise names of the model.
KeywordGroups ==
    "Bench Press" :> {"chest"}
    @@ "Romanian Deadlift" :> {"back", "legs"}
    @@ "Walking Lunge" :> {"legs", "cardio"}
    @@ "Mystery Move" :> {}
    @@ "Unknown" :> {}

\* infer_muscle_group: the first group, in dict order, with a matching
\* keyword.
infer_muscle_group(exercise_name) ==
    LET hits == {i \in 1..Len(MuscleGroupOrder) :
                    MuscleGroupOrder[i] \in KeywordGroups[exercise_name]}
    IN  IF hits = {} THEN "other"
        ELSE MuscleGroupOrder[CHOOSE i \in hits : \A j \in hits : i <= j]

\* muscle_group after the template lookup ("" stands for None: both are
\* falsy and neither is 'other').
TemplateGroup(e, template_map) ==
    LET template_id == DictGet(e, "exercise_template_id", "")
    IN  IF DOMAIN template_map # {} /\ template_id # ""
           /\ template_id \in DOMAIN template_map
        THEN DictGet(template_map[template_id], "primary_muscle_group", "")
        ELSE ""

\* The resolution that keeps a supplied 'other'.
ResolveGroup_keepOther(e, template_map, name) ==
    LET from_template == TemplateGroup(e, template_map)
        supplied ==
            IF from_template # "" THEN from_template
            ELSE FirstNonEmpty(e, <<"muscle_group", "primary_muscle_group",
                                    "category">>, "")
    IN  IF supplied = "" THEN infer_muscle_group(name)
        ELSE supplied

\* muscle_group before .lower(): the template's group, else the explicit
\* field, and the keyword match when that is empty or 'other'.
ResolveGroup(e, template_map, name) ==
    LET from_template == TemplateGroup(e, template_map)
        supplied ==
            IF from_template # "" THEN from_template
            ELSE FirstNonEmpty(e, <<"muscle_group", "primary_muscle_group",
                                    "category">>, "")
    IN  IF supplied = "" \/ supplied = "other" THEN infer_muscle_group(name)
        ELSE supplied

\* The double of the literal 0.453592.
PoundsToKilograms ==
    [neg |-> FALSE, m |-> <<2808, 13754, 14955, 1857>>, e |-> -54]

\* float(weight_kg or weight or 0), times 0.453592 when the set says
\* pounds.
SetWeight(set) ==
    LET Converted(weight) ==
            IF DictGet(set, "weight_unit", "") = "lbs"
               \/ DictGet(set, "unit", "") = "lb"
            THEN FloatMul[weight, PoundsToKilograms]
            ELSE weight
    IN  Converted(Tenths(FirstNonZero(set, <<"weight_kg", "weight">>)))

\* round(x, 1) of a weight, in tenths of a kilogram.
RoundWeight(weight) == FloatRoundTo[weight, 10]

\* exercise['volume_kg'] += reps * weight
AddVolume(volume, reps, weight) == FloatAdd[volume, FloatMulInt[weight, reps]]

\* round(volume, 1), in tenths of a kilogram.
RoundVolume(volume) == FloatRoundTo[volume, 10]

\* max(a, b): a unless b is greater.
FloatMax(a, b) == IF FloatLess[a, b] THEN b ELSE a

\* The set types that count towards the volume, with warm-ups included.
VolumeSetTypes_withWarmup == {"working", "normal", "drop", "dropset", "warmup"}

\* The set types that count towards the volume.
VolumeSetTypes == {"working", "normal", "drop", "dropset"}

\* The loop body of the sets of an exercise.
ParseSet(exercise, set) ==
    LET reps == FirstNonZero(set, <<"reps", "repetitions">>)
        set_type == FirstNonEmpty(set, <<"type", "set_type">>, "working")
        counted == Lower(set_type) \in VolumeSetTypes
        Parsed(weight) ==
            [exercise EXCEPT
                !.sets = Append(@, [reps |-> reps,
                                    weight_kg |-> RoundWeight(weight),
                                    type |-> set_type]),
                !.volume = IF counted THEN AddVolume(@, reps, weight) ELSE @,
                !.total_reps = IF counted THEN @ + reps ELSE @,
                !.max_weight = FloatMax(@, weight),
                !.set_count = @ + 1]
    IN  Parsed(SetWeight(set))

\* for s in sets_raw: ..., from the i-th element on.
RECURSIVE ParseSets(_, _, _)
ParseSets(exercise, sets_raw, i) ==
    IF i > Len(sets_raw) THEN exercise
    ELSE ParseSets(IF IsDict(sets_raw[i]) THEN ParseSet(exercise, sets_raw[i])
                   ELSE exercise,
                   sets_raw, i + 1)

\* e.get('sets') or e.get('set_data') or []
SetsRaw(e) ==
    IF DictGet(e, "sets", <<>>) # <<>> THEN e.sets
    ELSE DictGet(e, "set_data", <<>>)

_parse_exercise(e, template_map) ==
    LET name == FirstNonEmpty(e, <<"title", "name", "exercise_name">>, "Unknown")
        Exercise(parsed) ==
            [name |-> name,
             muscle_group |-> Lower(ResolveGroup(e, template_map, name)),
             sets |-> parsed.sets,
             volume_kg |-> RoundVolume(parsed.volume),
             max_weight_kg |-> RoundWeight(parsed.max_weight),
             total_reps |-> parsed.total_reps,
             set_count |-> parsed.set_count]
    IN  Exercise(ParseSets([sets |-> <<>>,
                            volume |-> FloatZero,
                            max_weight |-> FloatZero, total_reps |-> 0,
                            set_count |-> 0],
                           SetsRaw(e), 1))

\* A timestamp "YYYY-MM-DDTHH:00:00Z" is the integer YYYYMMDDHH and the
\* empty string is 0; now is today's date, read from the clock.

\* _extract_date
_extract_date(timestamp, now) ==
    IF timestamp = 0 THEN now ELSE timestamp \div 100

\* The hours from 0001-01-01T00 to the timestamp.
HoursOf(timestamp) ==
    LET date == timestamp \div 100
    IN  Ordinal(YearOf(date), MonthOf(date), DayOf(date)) * 24 + (timestamp % 100)

\* _calculate_duration
_calculate_duration(start, end) ==
    IF start = 0 \/ end = 0 THEN 0
    ELSE Max(0, (HoursOf(end) - HoursOf(start)) * 60)

\* for e in exercises_raw: ..., from the i-th element on.
RECURSIVE ParseExercises(_, _, _, _)
ParseExercises(workout, exercises_raw, i, template_map) ==
    IF i > Len(exercises_raw) THEN workout
    ELSE IF ~IsDict(exercises_raw[i])
    THEN ParseExercises(workout, exercises_raw, i + 1, template_map)
    ELSE LET With(exercise) ==
                 [workout EXCEPT
                     !.exercises = Append(@, exercise),
                     !.total_volume_kg =
                         FloatAdd[@, Tenths(exercise.volume_kg)],
                     !.total_sets = @ + exercise.set_count,
                     !.total_reps = @ + exercise.total_reps,
                     !.muscle_groups = @ \cup {exercise.muscle_group}]
         IN  ParseExercises(
                 With(_parse_exercise(exercises_raw[i], template_map)),
                 exercises_raw, i + 1, template_map)

\* w.get('exercises') or w.get('exercise_data') or []
ExercisesRaw(w) ==
    IF DictGet(w, "exercises", <<>>) # <<>> THEN w.exercises
    ELSE DictGet(w, "exercise_data", <<>>)

\* _parse_workout; muscle_groups is list(set(...)), a list in no
\* particular order, held as a set.
_parse_workout(w, template_map, now) ==
    LET start_time == FirstNonZero(w, <<"start_time", "startTime",
                                        "started_at", "date">>)
        end_time == FirstNonZero(w, <<"end_time", "endTime", "ended_at",
                                      "completed_at">>)
        workout ==
            ParseExercises(
                [id |-> FirstNonEmpty(w, <<"id", "workout_id">>, ""),
                 name |-> FirstNonEmpty(w, <<"name", "title">>, "Workout"),
                 date |-> _extract_date(start_time, now),
                 start_time |-> start_time,
                 end_time |-> end_time,
                 duration_minutes |-> _calculate_duration(start_time, end_time),
                 exercises |-> <<>>,
                 total_volume_kg |-> FloatZero,
                 total_sets |-> 0,
                 total_reps |-> 0,
                 muscle_groups |-> {}],
                ExercisesRaw(w), 1, template_map)
    IN  workout @@ [exercise_count |-> Len(workout.exercises)]

\* A value of the API response is [type |-> "NoneType"],
\* [type |-> "dict", value |-> a dict] or [type |-> "list", value |-> a
\* list].
PyNone == [type |-> "NoneType"]

PyDict(value) == [type |-> "dict", value |-> value]

PyList(value) == [type |-> "list", value |-> value]

\* bool(x)
Truthy(x) ==
    /\ x.type # "NoneType"
    /\ x.type = "dict" => DOMAIN x.value # {}
    /\ x.type = "list" => x.value # <<>>

\* The call returned the value, or raised the exception.
Returned(value) == [returned |-> value]

Raised(exception) == [raised |-> exception]

\* api_response.get('workouts') or api_response.get('data') or
\* api_response.get('results') or []
RECURSIVE FirstTruthy(_, _)
FirstTruthy(response, keys) ==
    IF keys = <<>> THEN PyList(<<>>)
    ELSE IF Truthy(DictGet(response, Head(keys), PyNone))
    THEN response[Head(keys)]
    ELSE FirstTruthy(response, Tail(keys))

\* if not isinstance(workouts_raw, list):
\*     workouts_raw = [workouts_raw] if workouts_raw else []
AsList(workouts_raw) ==
    IF workouts_raw.type = "list" THEN workouts_raw.value
    ELSE IF Truthy(workouts_raw) THEN <<workouts_raw.value>>
    ELSE <<>>

\* The parsed workouts of the dicts of the list, in the order of the list.
RECURSIVE ParseWorkouts(_, _, _)
ParseWorkouts(workouts_raw, template_map, now) ==
    IF workouts_raw = <<>> THEN <<>>
    ELSE (IF IsDict(Head(workouts_raw))
          THEN <<_parse_workout(Head(workouts_raw), template_map, now)>>
          ELSE <<>>)
         \o ParseWorkouts(Tail(workouts_raw), template_map, now)

\* workouts.sort(key=lambda x: x.get('start_time', ''), reverse=True): a
\* stable sort, newest first.
RECURSIVE SortedNewestFirst(_)
SortedNewestFirst(workouts) ==
    IF workouts = <<>> THEN <<>>
    ELSE LET rest == SortedNewestFirst(SubSeq(workouts, 1, Len(workouts) - 1))
             w == workouts[Len(workouts)]
             k == Cardinality({i \in 1..Len(rest) :
                                  rest[i].start_time >= w.start_time})
         IN  SubSeq(rest, 1, k) \o <<w>> \o SubSeq(rest, k + 1, Len(rest))

\* extract_workout_metrics: a list has no attribute 'get', so a non-empty
\* bare list raises before the isinstance test is reached.
extract_workout_metrics(api_response, template_map, now) ==
    IF ~Truthy(api_response) THEN Returned(<<>>)
    ELSE IF api_response.type = "list" THEN Raised("AttributeError")
    ELSE Returned(SortedNewestFirst(
             ParseWorkouts(
                 AsList(FirstTruthy(api_response.value,
                                    <<"workouts", "data", "results">>)),
                 template_map, now)))

(***************************************************************************)
(* The workout specification: one exercise, or one API response, is drawn *)
(* and parsed.                                                             *)
(***************************************************************************)

\* A dict with the key, or without it when the value is "".
Field(key, value) == IF value = "" THEN <<>> ELSE key :> value

\* A warm-up set and a working set of 8 x 80 kg; weights are in tenths.
WarmupSet == [reps |-> 8, weight_kg |-> 800, type |-> "warmup"]

WorkingSet == [reps |-> 8, weight_kg |-> 800, type |-> "working"]

ExampleSets == <<WarmupSet, WorkingSet>>

SetKinds ==
    {WarmupSet, WorkingSet,
     [reps |-> 10, weight_kg |-> 600, type |-> "normal"],
     [reps |-> 5, weight |-> 450, weight_unit |-> "lbs", type |-> "drop"],
     [repetitions |-> 6, weight_kg |-> 275, set_type |-> "dropset"],
     [reps |-> 3, weight_kg |-> 1025, type |-> "failure"],
     [reps |-> 12, weight_kg |-> 200],
     [reps |-> 8, weight |-> 1350, unit |-> "lb", type |-> "Working"],
     [reps |-> 25, weight |-> 2500, weight_unit |-> "lbs", type |-> "normal"],
     NotADict}

MaxSets == 3

\* The template tables: none, one without the group, and one per group.
TemplateMaps ==
    {<<>>, [T1 |-> [title |-> "x"]]}
    \cup {[T1 |-> [title |-> "x", primary_muscle_group |-> g]] :
             g \in {"chest", "Chest", "other", "Other", "shoulders", ""}}

\* Exercises that differ in the sources of the muscle group.
GroupExercises ==
    {Field("title", title) @@ Field("exercise_template_id", template_id)
     @@ Field("muscle_group", muscle_group)
     @@ Field("primary_muscle_group", primary) @@ Field("category", category)
     @@ [sets |-> ExampleSets] :
        title \in {"", "Bench Press", "Romanian Deadlift", "Mystery Move"},
        template_id \in {"", "T1", "T9"},
        muscle_group \in {"", "back", "other"},
        primary \in {"", "legs"},
        category \in {"", "core"}}

\* Exercises that differ in their sets.
SetExercises ==
    {[title |-> "Bench Press", sets |-> sets] :
        sets \in SeqsUpTo(SetKinds, MaxSets)}

ExerciseInputs ==
    {[kind |-> "exercise", e |-> e, template_map |-> template_map] :
        e \in GroupExercises, template_map \in TemplateMaps}
    \cup {[kind |-> "exercise", e |-> e, template_map |-> <<>>] :
             e \in SetExercises}

\* The workouts of a response; the last has no start time and is not a
\* dict.
WorkoutKinds ==
    {[id |-> "w1", name |-> "Push Day", start_time |-> 2025100110,
      end_time |-> 2025100111,
      exercises |-> <<[title |-> "Bench Press",
                       exercise_template_id |-> "T1",
                       sets |-> ExampleSets]>>],
     [workout_id |-> "w2", title |-> "Legs", startTime |-> 2025100309,
      endTime |-> 2025100308,
      exercise_data |-> <<[name |-> "Walking Lunge",
                           sets |-> <<[reps |-> 12, weight_kg |-> 200]>>],
                          NotADict>>],
     [id |-> "w3"],
     NotADict}

MaxWorkouts == 3

\* The four shapes that carry a list of workouts.
ListShapes == {"workouts", "data", "results", "list"}

\* The response of the shape, for a list of workouts.
ResponseOf(shape, workouts_raw) ==
    CASE shape = "list" -> PyList(workouts_raw)
      [] shape = "none" -> PyNone
      [] shape = "empty" -> PyDict(<<>>)
      [] shape = "data_after_empty_workouts" ->
            PyDict([workouts |-> PyList(<<>>), data |-> PyList(workouts_raw)])
      [] shape = "single" ->
            PyDict([data |-> PyDict(workouts_raw[1])])
      [] OTHER -> PyDict(shape :> PyList(workouts_raw))

ResponseShapes ==
    {<<shape, workouts_raw>> :
        shape \in ListShapes \cup {"data_after_empty_workouts"},
        workouts_raw \in SeqsUpTo(WorkoutKinds, MaxWorkouts)}
    \cup {<<shape, <<>>>> : shape \in {"none", "empty"}}
    \cup {<<"single", <<w>>>> : w \in WorkoutKinds \ {NotADict}}

Today == 20251005

ResponseInputs ==
    {[kind |-> "response", shape |-> s[1], workouts_raw |-> s[2],
      api_response |-> ResponseOf(s[1], s[2]),
      template_map |-> [T1 |-> [primary_muscle_group |-> "chest"]],
      now |-> Today] :
        s \in ResponseShapes}

InitHevy ==
    /\ fn = "input"
    /\ arg \in ExerciseInputs \cup ResponseInputs
    /\ ret = NoResult

ParseExercise ==
    /\ fn = "input"
    /\ arg.kind = "exercise"
    /\ fn' = "_parse_exercise"
    /\ ret' = _parse_exercise(arg.e, arg.template_map)
    /\ UNCHANGED arg

ExtractWorkoutMetrics ==
    /\ fn = "input"
    /\ arg.kind = "response"
    /\ fn' = "extract_workout_metrics"
    /\ ret' = extract_workout_metrics(arg.api_response, arg.template_map,
                                      arg.now)
    /\ UNCHANGED arg

NextHevy == ParseExercise \/ ExtractWorkoutMetrics

SpecHevy == InitHevy /\ [][NextHevy]_vars

(***************************************************************************)
(* Properties of the workout parser.                                       *)
(***************************************************************************)

ExerciseReturned == fn = "_parse_exercise"

\* The positions of the sets of the exercise: the dicts of its list.
SetPositions(sets_raw) == {i \in 1..Len(sets_raw) : IsDict(sets_raw[i])}

\* The type of a set, 'working' when it has none, in lower case.
TypeOf(set) ==
    LET given == IF DictGet(set, "type", "") # "" THEN set.type
                 ELSE DictGet(set, "set_type", "")
    IN  Lower(IF given = "" THEN "working" ELSE given)

InPounds(set) ==
    DictGet(set, "weight_unit", "") = "lbs" \/ DictGet(set, "unit", "") = "lb"

\* reps and weight as the set gives them, the weight in tenths of its unit.
RepsOf(set) ==
    IF DictGet(set, "reps", 0) # 0 THEN set.reps
    ELSE DictGet(set, "repetitions", 0)

GivenWeight(set) ==
    IF DictGet(set, "weight_kg", 0) # 0 THEN set.weight_kg
    ELSE DictGet(set, "weight", 0)

\* The weight of the set in kilograms: pounds are 0.453592 kg.
Kilograms(set) ==
    IF InPounds(set)
    THEN FloatMul[Tenths(GivenWeight(set)), PoundsToKilograms]
    ELSE Tenths(GivenWeight(set))

\* The sum of reps * weight over the sets at the positions, added in the
\* order of the list as floats are added, to the tenth of a kilogram.
VolumeOver(sets_raw, positions) ==
    LET at == Sorted(positions)
    IN  FloatRoundTo[
            FloatSum([j \in 1..Len(at) |->
                         FloatMulInt[Kilograms(sets_raw[at[j]]),
                                     RepsOf(sets_raw[at[j]])]]),
            10]

WeightUnit == 1000000

\* 0.453592 kg, per tenth of a pound, in WeightUnit-ths of a tenth of a
\* kilogram.
PoundUnit == 453592

\* The exact sum of reps * weight over the sets at the positions, in
\* WeightUnit-ths of a tenth of a kilogram, as a natural number of any
\* size.
RECURSIVE ExactVolume(_, _)
ExactVolume(sets_raw, positions) ==
    IF positions = {} THEN <<>>
    ELSE LET i == CHOOSE j \in positions : TRUE
         IN  BigAdd[BigMul[BigOf[RepsOf(sets_raw[i]) * GivenWeight(sets_raw[i])],
                           BigOf[IF InPounds(sets_raw[i]) THEN PoundUnit
                                 ELSE WeightUnit]],
                    ExactVolume(sets_raw, positions \ {i})]

\* The reported volume, in tenths of a kilogram, is a tenth nearest to the
\* exact sum: twice their distance is at most a tenth.
NearestTenth(volume_kg, exact) ==
    LET Within(reported) ==
            BigCmp[BigMulSmall[IF BigCmp[reported, exact] >= 0
                               THEN BigSub[reported, exact]
                               ELSE BigSub[exact, reported], 2],
                   BigOf[WeightUnit]] <= 0
    IN  Within(BigMul[BigOf[volume_kg], BigOf[WeightUnit]])

\* C18: the volume of an exercise is the sum of reps * weight over exactly
\* the sets whose type is working, normal, drop or dropset (a set without
\* a type is a working set), weights in kilograms, added in the order of
\* the sets and reported to the tenth of a kilogram; warm-up sets and sets
\* of any other type add nothing; and set_count is the number of all sets,
\* whatever their type.
C18_VolumeOverWorkingSets ==
    ExerciseReturned =>
        LET sets_raw == SetsRaw(arg.e)
            working == {i \in SetPositions(sets_raw) :
                           TypeOf(sets_raw[i])
                               \in {"working", "normal", "drop", "dropset"}}
        IN  /\ ret.volume_kg = VolumeOver(sets_raw, working)
            /\ NearestTenth(ret.volume_kg, ExactVolume(sets_raw, working))
            /\ ret.set_count = Cardinality(SetPositions(sets_raw))

\* The sets [warm-up 8 x 80, working 8 x 80] gave volume 640 and
\* set_count 2.
C18_Witness ==
    /\ ExerciseReturned
    /\ SetsRaw(arg.e) = <<WarmupSet, WorkingSet>>
    /\ ret.volume_kg = 6400
    /\ ret.set_count = 2

\* The group the template table supplies for the exercise, "" when none.
SuppliedByTemplate ==
    IF DictGet(arg.e, "exercise_template_id", "") \in DOMAIN arg.template_map
    THEN DictGet(arg.template_map[arg.e.exercise_template_id],
                 "primary_muscle_group", "")
    ELSE ""

\* The group the exercise record supplies, "" when none.
SuppliedByRecord ==
    IF DictGet(arg.e, "muscle_group", "") # "" THEN arg.e.muscle_group
    ELSE IF DictGet(arg.e, "primary_muscle_group", "") # ""
    THEN arg.e.primary_muscle_group
    ELSE DictGet(arg.e, "category", "")

\* The group of the keyword match on the name, 'other' without a match.
MatchedByName ==
    infer_muscle_group(IF DictGet(arg.e, "title", "") # "" THEN arg.e.title
                       ELSE "Unknown")

\* C19 as stated: the template's group if it supplies one, else the field
\* of the record, else the keyword match, else 'other'; a supplied group,
\* 'other' included, is never replaced by a lower source.
C19_StrictPrecedence ==
    ExerciseReturned =>
        ret.muscle_group =
            Lower(IF SuppliedByTemplate # "" THEN SuppliedByTemplate
                  ELSE IF SuppliedByRecord # "" THEN SuppliedByRecord
                  ELSE MatchedByName)

\* C19: the template's group is taken if it supplies one, else the field of
\* the record; a group other than 'other' taken so is the result, in lower
\* case, and when none is taken or the one taken is 'other' the result is
\* the keyword match on the name, 'other' without a match.
C19_PrecedenceWithOtherAsUnset ==
    ExerciseReturned =>
        LET taken == IF SuppliedByTemplate # "" THEN SuppliedByTemplate
                     ELSE SuppliedByRecord
        IN  ret.muscle_group =
                IF taken \in {"", "other"} THEN MatchedByName
                ELSE Lower(taken)

\* A template that supplies 'other' for a bench press whose record says
\* 'back' gave 'chest', the keyword match.
C19_Witness ==
    /\ ExerciseReturned
    /\ SuppliedByTemplate = "other"
    /\ SuppliedByRecord = "back"
    /\ MatchedByName = "chest"
    /\ ret.muscle_group = "chest"

ResponseReturned == fn = "extract_workout_metrics"

\* C20: the same workouts under 'workouts', 'data' or 'results' or as a
\* bare list give the same list of workouts, the one the 'workouts' key
\* gives, without raising; a None or empty response gives the empty list.
C20_SameListForEveryShape ==
    ResponseReturned =>
        /\ arg.shape \in ListShapes =>
              ret = extract_workout_metrics(
                        PyDict([workouts |-> PyList(arg.workouts_raw)]),
                        arg.template_map, arg.now)
        /\ arg.shape \in ListShapes => "returned" \in DOMAIN ret
        /\ arg.shape \in {"none", "empty"} => ret = Returned(<<>>)

----------------------------------------------------------------------------
(* The coercion of the quantities, scripts/detailed_analysis.py            *)
(*                                                                         *)
(* The quantity of a reading is a number, [number |-> quarters], or a      *)
(* string, [text |-> "..."]; the daily aggregation above is the case in    *)
(* which every quantity is a number.                                       *)

\* The strings of the model that float() accepts, with their values in
\* quarters; float() raises ValueError on every other string.
NumericStrings == "30" :> 120 @@ "50.5" :> 202 @@ "1e2" :> 400

\* float(qty) for a number or a string.
PyFloat(qty) ==
    IF "number" \in DOMAIN qty THEN Returned(qty.number)
    ELSE IF qty.text \in DOMAIN NumericStrings
    THEN Returned(NumericStrings[qty.text])
    ELSE Raised("ValueError")

\* float(d.get('qty', 0)) raises for the reading.
FloatRaises(d) == "qty" \in DOMAIN d /\ "raised" \in DOMAIN PyFloat(d.qty)

\* The reading with its quantity as the float float() returns.
FloatReading(d) ==
    IF "qty" \in DOMAIN d THEN [d EXCEPT !.qty = PyFloat(d.qty).returned]
    ELSE d

\* The metrics calculate_totals sums.
SummedMetrics == {TotalsSource[key] : key \in TotalsKeys}

\* calculate_totals on metrics whose quantities are numbers or strings: the
\* first float() that raises ends the call, and a metric that is not
\* summed is not read.
calculate_totals_of(metrics) ==
    IF \E name \in DOMAIN metrics \cap SummedMetrics :
          \E i \in 1..Len(metrics[name].data) :
              FloatRaises(metrics[name].data[i])
    THEN Raised("ValueError")
    ELSE Returned(calculate_totals(
             [name \in DOMAIN metrics \cap SummedMetrics |->
                 [metrics[name] EXCEPT
                     !.data = [i \in 1..Len(@) |-> FloatReading(@[i])]]]))

\* The readings: 100, 50.5, '30', '1e2', 'abc', '' and one without a qty.
TypedReadings ==
    {[qty |-> [number |-> 400]], [qty |-> [number |-> 202]],
     [qty |-> [text |-> "30"]], [qty |-> [text |-> "1e2"]],
     [qty |-> [text |-> "abc"]], [qty |-> [text |-> ""]],
     [source |-> "watch"]}

MaxTypedReadings == 3

\* A day with one summed metric, and with or without a heart-rate reading
\* whose quantity is not numeric.
TypedMetricsInputs ==
    {(name :> [count |-> Len(data), data |-> data]) @@ other :
        name \in {"step_count", "walking_running_distance"},
        data \in SeqsUpTo(TypedReadings, MaxTypedReadings),
        other \in {<<>>,
                   [heart_rate |->
                       [count |-> 1, data |-> <<[qty |-> [text |-> "abc"]]>>]]}}

InitCoerce ==
    /\ fn = "input"
    /\ arg \in TypedMetricsInputs
    /\ ret = NoResult

CalculateTotals ==
    /\ fn = "input"
    /\ fn' = "calculate_totals"
    /\ ret' = calculate_totals_of(arg)
    /\ UNCHANGED arg

NextCoerce == CalculateTotals

SpecCoerce == InitCoerce /\ [][NextCoerce]_vars

\* The quantity of the reading as the claim coerces it: the number, the
\* value of a numeric string, and 0 for a string that is not numeric or a
\* reading without a quantity.
QtyOrZero(d) ==
    IF "qty" \notin DOMAIN d THEN 0
    ELSE IF "number" \in DOMAIN d.qty THEN d.qty.number
    ELSE IF d.qty.text \in DOMAIN NumericStrings THEN NumericStrings[d.qty.text]
    ELSE 0

\* C21: calculate_totals coerces every quantity to float and counts a
\* quantity that is not numeric as 0: for every reading list it returns the
\* totals of the coerced quantities and never raises.
C21_NonNumericCountsAsZero ==
    fn = "calculate_totals" =>
        /\ "returned" \in DOMAIN ret
        /\ \A key \in TotalsKeys :
              TotalsSource[key] \in DOMAIN arg =>
                 /\ key \in DOMAIN ret.returned
                 /\ LET data == arg[TotalsSource[key]].data
                        total == SetSum([i \in 1..Len(data) |->
                                            QtyOrZero(data[i])],
                                        1..Len(data))
                    IN  ret.returned[key] =
                            IF key = "distance_km"
                            THEN PyRound(total * 100, QtyScale)
                            ELSE PyInt(total, QtyScale)

----------------------------------------------------------------------------
(* generate_summary_stats and generate_heart_rate_distribution,            *)
(* scripts/generate_dashboard_data.py                                      *)
(*                                                                         *)
(* data maps a date to the day load_date_range stored. distance_km of a    *)
(* day is in hundredths; the summary's distance_km and stand_hours are in  *)
(* tenths.                                                                 *)

\* s[-days:]
PyLast(s, days) ==
    IF days > 0 THEN SubSeq(s, Max(1, Len(s) - days + 1), Len(s))
    ELSE SubSeq(s, 1 - days, Len(s))

\* [data[date]['totals'].get(key, 0) for date in sorted_dates]
TotalsColumn(data, sorted_dates, key) ==
    [i \in 1..Len(sorted_dates) |-> DictGet(data[sorted_dates[i]].totals, key, 0)]

\* The readings appended under "if readings.get(key):".
ReadingsColumn(data, sorted_dates, key) ==
    SelectSeq([i \in 1..Len(sorted_dates) |->
                  DictGet(data[sorted_dates[i]].readings, key, 0)],
              LAMBDA x : x # 0)

\* int(sum(xs) / len(xs)) if xs else 0
IntMean(xs) == IF xs = <<>> THEN 0 ELSE PyInt(SeqSum(xs), Len(xs))

\* sum(1 for x in xs if x >= goal)
Achieved(xs, goal) == Cardinality({i \in 1..Len(xs) : xs[i] >= goal})

\* generate_summary_stats: sorted_dates[0] raises IndexError when the
\* window holds no date.
generate_summary_stats(data, days) ==
    LET sorted_dates == PyLast(SortedDates(data), days)
        steps == TotalsColumn(data, sorted_dates, "steps")
        distance == TotalsColumn(data, sorted_dates, "distance_km")
        energy == TotalsColumn(data, sorted_dates, "active_energy_kcal")
        exercise == TotalsColumn(data, sorted_dates, "exercise_minutes")
        stands == TotalsColumn(data, sorted_dates, "stand_hours")
        resting_hr == ReadingsColumn(data, sorted_dates, "resting_hr")
        hrv == ReadingsColumn(data, sorted_dates, "hrv_avg")
    IN  IF sorted_dates = <<>> THEN Raised("IndexError")
        ELSE Returned(
            [period |-> <<sorted_dates[1], sorted_dates[Len(sorted_dates)]>>,
             days_count |-> Len(sorted_dates),
             totals |->
                 [steps |-> SeqSum(steps),
                  distance_km |->
                      FloatRoundTo[FloatSum([i \in 1..Len(distance) |->
                                                Hundredths(distance[i])]), 10],
                  active_energy_kcal |-> SeqSum(energy),
                  exercise_minutes |-> SeqSum(exercise)],
             averages |->
                 [steps |-> IntMean(steps),
                  distance_km |-> RoundedMean(distance),
                  active_energy_kcal |-> IntMean(energy),
                  exercise_minutes |-> IntMean(exercise),
                  stand_hours |->
                      FloatRoundTo[IntDiv[SeqSum(stands), Len(stands)], 10],
                  resting_hr |-> IntMean(resting_hr),
                  hrv |-> IntMean(hrv)],
             goals |->
                 [steps_10k |-> [achieved |-> Achieved(steps, 10000),
                                 total |-> Len(steps)],
                  stand_12h |-> [achieved |-> Achieved(stands, 12),
                                 total |-> Len(stands)],
                  exercise_30m |-> [achieved |-> Achieved(exercise, 30),
                                    total |-> Len(exercise)]]])

\* list(zones.keys())
ZoneLabels == <<"resting", "light", "moderate", "vigorous", "peak">>

\* What one day adds to the five zones.
ZoneAdds(day) ==
    LET hr_stats == DictGet(day, "hr_stats", None)
        min_hr == DictGet(hr_stats, "min", 0)
        max_hr == DictGet(hr_stats, "max", 0)
        avg_hr == DictGet(hr_stats, "avg", 0)
    IN  IF hr_stats # None /\ DOMAIN hr_stats # {}
           /\ DictGet(hr_stats, "count", 0) > 0 /\ min_hr > 0 /\ max_hr > 0
        THEN <<IF min_hr < 60 THEN 1 ELSE 0,
               IF avg_hr >= 60 /\ avg_hr < 100 THEN 2
               ELSE IF avg_hr < 60 THEN 1 ELSE 0,
               IF max_hr >= 100 THEN 1 ELSE 0,
               IF max_hr >= 140 THEN 1 ELSE 0,
               IF max_hr >= 170 THEN 1 ELSE 0>>
        ELSE <<0, 0, 0, 0, 0>>

\* generate_heart_rate_distribution
generate_heart_rate_distribution(data, days) ==
    LET sorted_dates == PyLast(SortedDates(data), days)
    IN  [labels |-> ZoneLabels,
         values |->
             [z \in 1..5 |->
                 SeqSum([i \in 1..Len(sorted_dates) |->
                            ZoneAdds(data[sorted_dates[i]])[z]])]]

(* The summary specification: one call on the days of a window             *)

\* The days load_date_range can store; the last has the heart-rate stats
\* of test_counts_days_in_each_zone.
SummaryDayKinds ==
    {[totals |-> [steps |-> 12000, distance_km |-> 800,
                  active_energy_kcal |-> 500, exercise_minutes |-> 45,
                  stand_hours |-> 12],
      readings |-> [resting_hr |-> 55, hrv_avg |-> 52],
      hr_stats |-> [count |-> 10, min |-> 55, max |-> 150, avg |-> 75]],
     [totals |-> [steps |-> 8000, distance_km |-> 635,
                  exercise_minutes |-> 20, stand_hours |-> 9],
      readings |-> <<>>,
      hr_stats |-> None],
     [totals |-> <<>>,
      readings |-> [resting_hr |-> 62],
      hr_stats |-> [count |-> 3, min |-> 62, max |-> 180, avg |-> 110]],
     [totals |-> [steps |-> 3001],
      readings |-> [resting_hr |-> 0, hrv_avg |-> 31],
      hr_stats |-> [count |-> 5, min |-> 48, max |-> 58, avg |-> 50]],
     [totals |-> <<>>, readings |-> <<>>, hr_stats |-> [avg |-> 75]]}

MaxSummaryDays == 4

\* The window sizes: the callers pass 7, the tests 2 and 3.
WindowSizes == {1, 2, 3, 7}

SummaryInputs ==
    {[data |-> History(days), days |-> n] :
        days \in SeqsUpTo(SummaryDayKinds, MaxSummaryDays), n \in WindowSizes}

InitSummary ==
    /\ fn = "input"
    /\ arg \in SummaryInputs
    /\ ret = NoResult

GenerateSummaryStats ==
    /\ fn = "input"
    /\ fn' = "generate_summary_stats"
    /\ ret' = generate_summary_stats(arg.data, arg.days)
    /\ UNCHANGED arg

GenerateHeartRateDistribution ==
    /\ fn = "input"
    /\ fn' = "generate_heart_rate_distribution"
    /\ ret' = generate_heart_rate_distribution(arg.data, arg.days)
    /\ UNCHANGED arg

NextSummary == GenerateSummaryStats \/ GenerateHeartRateDistribution

SpecSummary == InitSummary /\ [][NextSummary]_vars

\* C22: generate_summary_stats returns a summary with period, days_count,
\* totals, averages and goals, without raising, for every data map and
\* window size, the empty map included.
C22_SummaryNeverRaises ==
    fn = "generate_summary_stats" =>
        /\ "returned" \in DOMAIN ret
        /\ DOMAIN ret.returned =
               {"period", "days_count", "totals", "averages", "goals"}

\* The zone of an average heart rate: below 60 resting, 60-100 light,
\* 100-140 moderate, 140-170 vigorous, above peak.
ZoneOf(avg_hr) ==
    IF avg_hr < 60 THEN 1
    ELSE IF avg_hr < 100 THEN 2
    ELSE IF avg_hr < 140 THEN 3
    ELSE IF avg_hr < 170 THEN 4
    ELSE 5

\* The dates of the window whose day has heart-rate stats.
DaysWithHrStats ==
    LET sorted_dates == PyLast(SortedDates(arg.data), arg.days)
    IN  {d \in {sorted_dates[i] : i \in 1..Len(sorted_dates)} :
            LET hr_stats == DictGet(arg.data[d], "hr_stats", None)
            IN  hr_stats # None /\ DOMAIN hr_stats # {}}

\* C24: every day of the window with heart-rate stats adds 1 to the zone of
\* its average heart rate and to no other, and the other days add nothing:
\* the five values sum to the number of days with heart-rate stats.
C24_OneZonePerDay ==
    fn = "generate_heart_rate_distribution" =>
        /\ \A z \in 1..5 :
              ret.values[z] =
                  Cardinality({d \in DaysWithHrStats :
                                  ZoneOf(DictGet(arg.data[d].hr_stats, "avg", 0)) = z})
        /\ SeqSum(ret.values) = Cardinality(DaysWithHrStats)

----------------------------------------------------------------------------
(* The resting heart rate of a day on the two aggregation paths            *)

\* The resting-heart-rate readings of the day's export.
RestingOfDay == DictGet(arg, "resting_heart_rate", <<>>)

\* The quantity of the i-th of them, 0 without one.
RestingQty(i) == DictGet(RestingOfDay[i], "qty", 0)

\* The readings the deep-analysis loader keeps: those whose quantity is not
\* 0.
RestingKept == {i \in 1..Len(RestingOfDay) : RestingQty(i) # 0}

\* C23: for a day with resting-heart-rate readings the detailed path
\* (get_key_readings) reports the last reading of the day, as an integer,
\* and the deep-analysis path (calculate_daily_stats) reports the first
\* reading of the day, which is the first the loader kept.
C23_RestingHrLastAndFirst ==
    /\ fn = "detailed" /\ RestingOfDay # <<>> =>
          ret.readings.resting_hr =
              PyInt(RestingQty(Len(RestingOfDay)), QtyScale)
    /\ fn = "deep" /\ RestingKept # {} =>
          ret.resting_hr =
              RestingQty(CHOOSE i \in RestingKept : \A j \in RestingKept : i <= j)

\* The deep-analysis path reported 58 for the readings 58, 62.5, 60.
C23_Witness ==
    /\ fn = "deep"
    /\ RestingOfDay = <<Q(232), Q(250), Q(240)>>
    /\ ret.resting_hr = 232

----------------------------------------------------------------------------
(* The wall clock: _extract_date and get_muscle_group_stats,               *)
(* scripts/hevy_analysis.py                                                *)
(*                                                                         *)
(* Both read datetime.now(); the date it shows is the argument now.        *)

DaysInMonth(year, month) ==
    IF month = 12 THEN 31
    ELSE DaysBeforeMonth(year, month + 1) - DaysBeforeMonth(year, month)

\* date - timedelta(days=1) and date + timedelta(days=1)
PrevDay(date) ==
    IF DayOf(date) > 1 THEN date - 1
    ELSE IF MonthOf(date) > 1
    THEN YearOf(date) * 10000 + (MonthOf(date) - 1) * 100
         + DaysInMonth(YearOf(date), MonthOf(date) - 1)
    ELSE (YearOf(date) - 1) * 10000 + 1231

NextDay(date) ==
    IF DayOf(date) < DaysInMonth(YearOf(date), MonthOf(date)) THEN date + 1
    ELSE IF MonthOf(date) < 12
    THEN YearOf(date) * 10000 + (MonthOf(date) + 1) * 100 + 1
    ELSE (YearOf(date) + 1) * 10000 + 101

\* (date - timedelta(days=n)).strftime('%Y-%m-%d')
RECURSIVE DaysBefore(_, _)
DaysBefore(date, n) == IF n = 0 THEN date ELSE DaysBefore(PrevDay(date), n - 1)

\* The exercises of the workouts, in order.
RECURSIVE ExercisesOf(_)
ExercisesOf(workouts) ==
    IF workouts = <<>> THEN <<>>
    ELSE DictGet(Head(workouts), "exercises", <<>>) \o ExercisesOf(Tail(workouts))

\* The sum of a field over the exercises of the group.
GroupSum(exercises, group, field) ==
    LET of_group == SelectSeq(exercises, LAMBDA e : e.muscle_group = group)
    IN  SeqSum([i \in 1..Len(of_group) |-> of_group[i][field]])

\* The muscle groups in the order the loop over the exercises first meets
\* them, which is the order of the keys of volume_by_group.
GroupsInOrder(exercises) ==
    LET first == {i \in 1..Len(exercises) :
                     \A j \in 1..(i - 1) :
                         exercises[j].muscle_group # exercises[i].muscle_group}
        order == Sorted(first)
    IN  [i \in 1..Len(order) |-> exercises[order[i]].muscle_group]

\* round(v / total_volume * 100, 1) in tenths of a percent, for the rounded
\* volumes in tenths of a kilogram: total_volume is the float sum of the
\* volumes in the order of their keys.
VolumePercentages(volume_by_group, keys) ==
    LET Share(total_volume) ==
            [g \in DOMAIN volume_by_group |->
                FloatRoundTo[FloatMulInt[FloatDiv[Tenths(volume_by_group[g]),
                                                  total_volume], 100], 10]]
    IN  Share(FloatSum([i \in 1..Len(keys) |->
                           Tenths(volume_by_group[keys[i]])]))

\* get_muscle_group_stats; volumes are in tenths of a kilogram and
\* percentages in tenths of a percent.
get_muscle_group_stats(workouts, days, now) ==
    LET cutoff_date == DaysBefore(now, days)
        recent_workouts ==
            SelectSeq(workouts, LAMBDA w : DictGet(w, "date", 0) >= cutoff_date)
        exercises == ExercisesOf(recent_workouts)
        groups == {exercises[i].muscle_group : i \in 1..Len(exercises)}
        volume_by_group ==
            [g \in groups |-> GroupSum(exercises, g, "volume_kg")]
        total_volume == SetSum(volume_by_group, groups)
    IN  [period_days |-> days,
         workout_count |-> Len(recent_workouts),
         volume_distribution |-> volume_by_group,
         volume_percentages |->
             IF total_volume > 0
             THEN VolumePercentages(volume_by_group, GroupsInOrder(exercises))
             ELSE <<>>,
         frequency_distribution |->
             [g \in groups |->
                 Len(SelectSeq(exercises, LAMBDA e : e.muscle_group = g))],
         sets_distribution |->
             [g \in groups |-> GroupSum(exercises, g, "set_count")]]

(* The clock specification: calls of one function on one input, while the  *)
(* days pass. ret is the list of the values returned so far.               *)

\* Workouts as _parse_workout returned them on the first day.
ParsedWorkouts ==
    {_parse_workout(w, [T1 |-> [primary_muscle_group |-> "chest"]], Today) :
        w \in WorkoutKinds \ {NotADict}}

MaxStatsWorkouts == 2

MaxCalls == 2

MaxClockDays == 3

ClockInputs ==
    {[kind |-> "timestamp", timestamp |-> t, now |-> Today, passed |-> 0] :
        t \in {0, 2025100110}}
    \cup {[kind |-> "workouts", workouts |-> ws, days |-> n, now |-> Today,
           passed |-> 0] :
             ws \in SeqsUpTo(ParsedWorkouts, MaxStatsWorkouts), n \in {1, 3, 7}}

InitClock ==
    /\ fn = "input"
    /\ arg \in ClockInputs
    /\ ret = <<>>

\* A day passes.
Midnight ==
    /\ arg.passed < MaxClockDays
    /\ fn' = "midnight"
    /\ arg' = [arg EXCEPT !.now = NextDay(@), !.passed = @ + 1]
    /\ UNCHANGED ret

ExtractDate ==
    /\ arg.kind = "timestamp"
    /\ Len(ret) < MaxCalls
    /\ fn' = "_extract_date"
    /\ ret' = Append(ret, _extract_date(arg.timestamp, arg.now))
    /\ UNCHANGED arg

GetMuscleGroupStats ==
    /\ arg.kind = "workouts"
    /\ Len(ret) < MaxCalls
    /\ fn' = "get_muscle_group_stats"
    /\ ret' = Append(ret, get_muscle_group_stats(arg.workouts, arg.days, arg.now))
    /\ UNCHANGED arg

NextClock == Midnight \/ ExtractDate \/ GetMuscleGroupStats

SpecClock == InitClock /\ [][NextClock]_vars

\* C25: the functions never read the wall clock: calls with the same input
\* made at different times return the same value, for _extract_date of a
\* record without a start timestamp and for get_muscle_group_stats.
C25_SameInputSameOutput ==
    \A i, j \in 1..Len(ret) : ret[i] = ret[j]

----------------------------------------------------------------------------
(* Streaks and missing calendar dates                                      *)

\* The k calendar days that end on the date are all present and all meet
\* the threshold.
IsCalendarRun(daily_stats, end, k, goal_steps) ==
    \A i \in 0..(k - 1) :
        /\ DaysBefore(end, i) \in DOMAIN daily_stats
        /\ DictGet(daily_stats[DaysBefore(end, i)], "steps", 0) >= goal_steps

\* The lengths of the runs of calendar days that end on the date.
CalendarRunsTo(daily_stats, end, goal_steps) ==
    {k \in 0..Cardinality(DOMAIN daily_stats) :
        IsCalendarRun(daily_stats, end, k, goal_steps)}

\* C26: a missing calendar date breaks a step streak: the longest streak
\* is the longest run of calendar days that are all present and all meet the
\* threshold, and the current streak is the run of such days that ends on
\* the most recent date; days on the two sides of a gap are never joined.
C26_GapBreaksStreak ==
    StreaksReturned /\ DOMAIN arg.daily_stats # {} =>
        LET ds == arg.daily_stats
            dates == SortedDates(ds)
            runs == UNION {CalendarRunsTo(ds, d, arg.goal_steps) : d \in DOMAIN ds}
        IN  /\ \A k \in runs : k <= ret.longest_step_streak
            /\ ret.longest_step_streak \in runs
            /\ ret.current_streak
                   \in CalendarRunsTo(ds, dates[Len(dates)], arg.goal_steps)

\* The positions i of the sorted dates whose next recorded date is not the
\* calendar day after dates[i].
GapPositions(daily_stats) ==
    LET dates == SortedDates(daily_stats)
    IN  {i \in 1..(Len(dates) - 1) : dates[i + 1] # NextDay(dates[i])}

\* The positions find_correlations collects a pair at, for either lag-1
\* correlation.
CollectedPositions(daily_stats) ==
    LET dates == SortedDates(daily_stats)
    IN  PairPositions(daily_stats, dates, "exercise_min", "resting_hr")
        \cup PairPositions(daily_stats, dates, "steps", "hrv_avg")

\* C27: every (today, tomorrow) pair collected by find_correlations is made of
\* two calendar-consecutive dates: no pair is collected at a position of the
\* sorted dates that is followed by missing days.
C27_PairsAreCalendarConsecutive ==
    CorrelationsReturned =>
        CollectedPositions(arg.daily_stats) \cap GapPositions(arg.daily_stats) = {}

\* The window has no resting-HR reading: the summary's average is 0 or the
\* summary has no such entry.
NoRestingHrAverage(stats) ==
    DictGet(DictGet(stats, "averages", <<>>), "resting_hr", 0) = 0

\* The call of generate_insights raises instead of returning cards.
InsightsRaise(data, stats) == Len(data) >= 7 /\ AthleticTextRaises(stats)

\* C28: generate_insights emits the 'Athletic Heart Rate' card only for a
\* resting-HR average greater than 0 and below 60; when the window has no
\* resting-HR reading (average 0 or no entry) it emits no athletic card and
\* does not raise.
C28_AthleticCardNeedsReading ==
    (InsightsReturned /\ NoRestingHrAverage(arg.stats)) =>
        /\ ~InsightsRaise(arg.data, arg.stats)
        /\ ~HasCard(ret, "Athletic Heart Rate")

----------------------------------------------------------------------------
(* DataCache, src/health_analytics/cache.py                                *)
(*                                                                         *)
(* arg holds the cache object and the files it works on: the data and meta *)
(* file of each key, the source file's modification time, the wall clock,  *)
(* the statistics, and for each key the most recent successful set (a      *)
(* history of the calls, not read by any operation).  ret is the value     *)
(* returned by the last call.  The clock counts ticks of datetime.now(),   *)
(* HourTicks to the hour; a call reads the clock at least a tick later     *)
(* than the call before it, and after a call now is the time it read.      *)
(* _get_cache_path is taken as injective on the keys used.                 *)

\* A file that does not exist.
NoFile == [no_file |-> TRUE]

\* No successful set of the key so far.
NoSet == [no_set |-> TRUE]

CacheKeys == {"test_key", "tracked"}

\* str(k) of the integer dict keys used.
IntText == 1 :> "1" @@ 2 :> "2"

\* Python values handed to set: {'number': 42}, {'number': 43}, {1: 42} and
\* the set {1, 2}.
StrKeyDict(v) == [py |-> "dict", key |-> [str |-> "number"], value |-> v]

IntKeyDict(v) == [py |-> "dict", key |-> [int |-> 1], value |-> v]

PySet == [py |-> "set", items |-> {1, 2}]

CacheValues == {StrKeyDict(42), StrKeyDict(43), IntKeyDict(42), PySet}

\* json.dump(value, f) raises TypeError: a set is not JSON serializable.
JsonDumpRaises(value) == value.py = "set"

\* json.load of what json.dump wrote: the keys of a JSON object are strings.
JsonRoundTrip(value) ==
    IF value.py = "dict" /\ "int" \in DOMAIN value.key
    THEN [value EXCEPT !.key = [str |-> IntText[value.key.int]]]
    ELSE value

\* The ticks of the clock in an hour: more than the calls of a behaviour
\* take.
HourTicks == 10

\* timedelta(hours=max_age_hours), in ticks.
MaxAge(max_age_hours) == max_age_hours * HourTicks

\* _is_valid(key, source_path): whether the entry is valid, and whether the
\* check counted an invalidation.
_is_valid(cache, key, with_source) ==
    IF cache.data[key] = NoFile \/ cache.meta[key] = NoFile
    THEN [valid |-> FALSE, invalidated |-> FALSE]
    ELSE LET entry == cache.meta[key]
         IN  IF cache.now - entry.created_at > cache.max_age
             THEN [valid |-> FALSE, invalidated |-> TRUE]
             ELSE IF /\ with_source
                     /\ entry.source_mtime # None
                     /\ entry.source_mtime.mtime # 0
                     /\ cache.mtime > entry.source_mtime.mtime
                  THEN [valid |-> FALSE, invalidated |-> TRUE]
                  ELSE [valid |-> TRUE, invalidated |-> FALSE]

\* The statistics after a get.
StatsAfter(stats, check) ==
    [hits |-> stats.hits + (IF check.valid THEN 1 ELSE 0),
     misses |-> stats.misses + (IF check.valid THEN 0 ELSE 1),
     invalidations |-> stats.invalidations + (IF check.invalidated THEN 1 ELSE 0)]

\* get(key, source_path): the value returned.
CacheGet(cache, key, with_source) ==
    IF _is_valid(cache, key, with_source).valid THEN cache.data[key] ELSE None

\* set(key, value, source_path): the files after the call.  A value that
\* cannot be dumped removes both files of the key.
CacheSet(cache, key, value, with_source) ==
    IF JsonDumpRaises(value)
    THEN [cache EXCEPT !.data[key] = NoFile, !.meta[key] = NoFile]
    ELSE [cache EXCEPT
            !.data[key] = JsonRoundTrip(value),
            !.meta[key] =
                [created_at |-> cache.now,
                 source_mtime |-> IF with_source THEN [mtime |-> cache.mtime]
                                  ELSE None]]

\* The number of cache calls in a behaviour.
MaxCacheCalls == 3

\* The hours that pass in a behaviour between the calls.
MaxCacheHours == 2

\* The time that passes between two calls: a tick less than an hour, or an
\* hour.
Waits == {HourTicks - 1, HourTicks}

\* The writes to the source file in a behaviour.
MaxSourceWrites == 2

\* max_age_hours of the caches constructed.
MaxAgeHours == {0, 1}

EmptyCache(max_age_hours) ==
    [kind |-> "cache", max_age |-> MaxAge(max_age_hours), now |-> 0,
     waited |-> 0, mtime |-> 1,
     data |-> [k \in CacheKeys |-> NoFile],
     meta |-> [k \in CacheKeys |-> NoFile],
     stats |-> [hits |-> 0, misses |-> 0, invalidations |-> 0],
     latest |-> [k \in CacheKeys |-> NoSet],
     calls |-> 0, key |-> "test_key", with_source |-> FALSE]

InitCache ==
    /\ fn = "__init__"
    /\ arg \in {EmptyCache(h) : h \in MaxAgeHours}
    /\ ret = NoResult

\* The call counted, with the key and source_path it is made with; the
\* clock has moved on since the call before it.
Called(cache, key, with_source) ==
    [cache EXCEPT !.calls = @ + 1, !.key = key, !.with_source = with_source,
                  !.now = @ + 1]

Set ==
    /\ arg.calls < MaxCacheCalls
    /\ \E key \in CacheKeys, value \in CacheValues, with_source \in BOOLEAN :
          LET Stored(cache) ==
                  [CacheSet(cache, key, value, with_source)
                     EXCEPT !.latest[key] =
                         IF JsonDumpRaises(value) THEN @
                         ELSE [value |-> value, at |-> cache.now,
                               mtime |-> cache.mtime, removed |-> FALSE]]
          IN  /\ fn' = "set"
              /\ ret' = ~JsonDumpRaises(value)
              /\ arg' = Stored(Called(arg, key, with_source))

Get ==
    /\ arg.calls < MaxCacheCalls
    /\ \E key \in CacheKeys, with_source \in BOOLEAN :
          LET Looked(cache) ==
                  /\ ret' = CacheGet(cache, key, with_source)
                  /\ arg' = [cache EXCEPT
                               !.stats = StatsAfter(@, _is_valid(cache, key, with_source))]
          IN  /\ fn' = "get"
              /\ Looked(Called(arg, key, with_source))

Delete ==
    /\ arg.calls < MaxCacheCalls
    /\ \E key \in CacheKeys :
          /\ fn' = "delete"
          /\ ret' = (arg.data[key] # NoFile \/ arg.meta[key] # NoFile)
          /\ arg' = [Called(arg, key, FALSE) EXCEPT
                       !.data[key] = NoFile, !.meta[key] = NoFile,
                       !.latest[key] = IF @ = NoSet THEN @
                                       ELSE [@ EXCEPT !.removed = TRUE]]

Clear ==
    /\ arg.calls < MaxCacheCalls
    /\ fn' = "clear"
    /\ ret' = Cardinality({k \in CacheKeys : arg.data[k] # NoFile})
    /\ arg' = [Called(arg, arg.key, FALSE) EXCEPT
                 !.data = [k \in CacheKeys |-> NoFile],
                 !.meta = [k \in CacheKeys |-> NoFile],
                 !.latest = [k \in CacheKeys |->
                                IF @[k] = NoSet THEN @[k]
                                ELSE [@[k] EXCEPT !.removed = TRUE]]]

\* The source file is written: its modification time moves forward.
ModifySource ==
    /\ arg.mtime <= MaxSourceWrites
    /\ fn' = "modify_source"
    /\ arg' = [arg EXCEPT !.mtime = @ + 1]
    /\ UNCHANGED ret

\* Time passes between two calls.
TimePasses ==
    /\ \E wait \in Waits :
          /\ arg.waited + wait <= MaxCacheHours * HourTicks
          /\ arg' = [arg EXCEPT !.now = @ + wait, !.waited = @ + wait]
    /\ fn' = "time_passes"
    /\ UNCHANGED ret

NextCache == Set \/ Get \/ Delete \/ Clear \/ ModifySource \/ TimePasses

SpecCache == InitCache /\ [][NextCache]_vars

\* The last call was get(key, source_path) with a source path.
GetWithSourceReturned == fn = "get" /\ arg.with_source

\* The most recent successful set of the key can still be served: it was
\* not deleted or cleared, is no older than max_age, and the source file has
\* not been modified since.
Servable(cache, key) ==
    LET l == cache.latest[key]
    IN  /\ l # NoSet
        /\ ~l.removed
        /\ cache.now - l.at <= cache.max_age
        /\ cache.mtime = l.mtime

\* C29: get(key, source) returns the value stored by the most recent
\* successful set of the key while that entry is no older than max_age and
\* the source file has not been modified since the set, and None once the
\* source was modified, the entry is too old, or it was deleted or cleared.
C29_GetReturnsLatestSetOrNone ==
    GetWithSourceReturned =>
        ret = IF Servable(arg, arg.key) THEN arg.latest[arg.key].value ELSE None

----------------------------------------------------------------------------
(* HevyClient.get_workouts, scripts/hevy_helper.py                         *)
(*                                                                         *)
(* arg holds the call: max_retries, the loop variable attempt, the         *)
(* outcomes of the HTTP requests made so far and the seconds slept between *)
(* them.  fn is "get_workouts" while the call runs, then "returned" or     *)
(* "raised".  _rate_limit only spaces the requests in time.                *)

\* The largest max_retries a call is made with.
MaxRetries == 3

\* response.json() of a 200 response whose body decodes.
ResponseBody == [workouts |-> <<>>]

\* What response.json() does: it returns the decoded body, or the body does
\* not decode and it raises requests.JSONDecodeError (a RequestException,
\* requests 2.27 and later) or a plain ValueError (earlier versions).
JsonResults == {"body", "JSONDecodeError", "ValueError"}

\* The value of a decimal digit.
Digits ==
    "0" :> 0 @@ "1" :> 1 @@ "2" :> 2 @@ "3" :> 3 @@ "4" :> 4 @@
    "5" :> 5 @@ "6" :> 6 @@ "7" :> 7 @@ "8" :> 8 @@ "9" :> 9

\* The number written by the digits text[i..].
RECURSIVE DigitsValue(_, _, _)
DigitsValue(text, i, value) ==
    IF i > Len(text) THEN value
    ELSE DigitsValue(text, i + 1, 10 * value + Digits[text[i]])

\* int(text) of a header text, given as its characters, without blanks
\* or underscores: an optional sign and at least one digit, or ValueError.
IntOfText(text) ==
    LET signed == text # <<>> /\ text[1] \in {"+", "-"}
        digits == IF signed THEN Tail(text) ELSE text
    IN  IF digits = <<>> \/ \E i \in 1..Len(digits) : digits[i] \notin DOMAIN Digits
        THEN [raises |-> "ValueError"]
        ELSE [value |-> IF signed /\ text[1] = "-"
                        THEN -DigitsValue(digits, 1, 0)
                        ELSE DigitsValue(digits, 1, 0)]

\* The Retry-After header of a 429 response: absent, or the texts "2", "-1"
\* and "1.5".
RetryAfterHeaders ==
    {<<>>} \cup {"Retry-After" :> text :
                    text \in {<<"2">>, <<"-", "1">>, <<"1", ".", "5">>}}

\* What one requests.get can do: a response with a status code, or an
\* exception.
RequestOutcomes ==
    {[status |-> 200, headers |-> <<>>, json |-> j] : j \in JsonResults}
    \cup {[status |-> c, headers |-> <<>>] : c \in {204, 401, 403, 404, 500, 503}}
    \cup {[status |-> 429, headers |-> h] : h \in RetryAfterHeaders}
    \cup {[error |-> e] : e \in {"Timeout", "ConnectionError"}}

\* if attempt < max_retries - 1: the failure is retried.
RetriesLeft_throughLast(attempt, max_retries) == attempt < max_retries

RetriesLeft(attempt, max_retries) == attempt < max_retries - 1

\* int(response.headers.get('Retry-After', 60)).
WaitTime(headers) ==
    IF "Retry-After" \in DOMAIN headers THEN IntOfText(headers["Retry-After"])
    ELSE [value |-> 60]

\* time.sleep(wait_time), then continue; int() raises ValueError on a text
\* that is not an integer, and time.sleep on a negative number.
RateLimited(wait_time) ==
    IF "raises" \in DOMAIN wait_time \/ wait_time.value < 0
    THEN [next |-> "raise", exception |-> "ValueError"]
    ELSE [next |-> "continue", sleep |-> wait_time.value]

\* One iteration of the retry loop, given what the request did: whether the
\* call returns, raises or continues, the exception raised, and the seconds
\* slept before the next attempt.
AttemptResult(outcome, attempt, max_retries) ==
    LET Retried == IF RetriesLeft(attempt, max_retries)
                   THEN [next |-> "continue", sleep |-> TwoToThe[attempt]]
                   ELSE [next |-> "raise", exception |-> "HevyAPIError"]
    IN  IF "error" \in DOMAIN outcome THEN Retried
        ELSE IF outcome.status = 200
             THEN IF outcome.json = "body" THEN [next |-> "return"]
                  ELSE IF outcome.json = "JSONDecodeError" THEN Retried
                  ELSE [next |-> "raise", exception |-> "ValueError"]
        ELSE IF outcome.status = 401 \/ outcome.status = 404
             THEN [next |-> "raise", exception |-> "HevyAPIError"]
        ELSE IF outcome.status = 429 THEN RateLimited(WaitTime(outcome.headers))
        ELSE IF outcome.status >= 500 THEN Retried
        ELSE [next |-> "raise", exception |-> "HevyAPIError"]

RetryCalls ==
    {[kind |-> "get_workouts", max_retries |-> n, attempt |-> 0,
      outcomes |-> <<>>, slept |-> <<>>] : n \in 0..MaxRetries}

InitRetry ==
    /\ fn = "get_workouts"
    /\ arg \in RetryCalls
    /\ ret = NoResult

\* for attempt in range(max_retries): one request and its handling.
Attempt ==
    /\ fn = "get_workouts"
    /\ arg.attempt < arg.max_retries
    /\ \E outcome \in RequestOutcomes :
          LET r == AttemptResult(outcome, arg.attempt, arg.max_retries)
          IN  /\ fn' = CASE r.next = "return" -> "returned"
                         [] r.next = "raise" -> "raised"
                         [] OTHER -> "get_workouts"
              /\ ret' = CASE r.next = "return" -> Returned(ResponseBody)
                          [] r.next = "raise" -> Raised(r.exception)
                          [] OTHER -> ret
              /\ arg' = [arg EXCEPT
                           !.outcomes = Append(@, outcome),
                           !.attempt = IF r.next = "continue" THEN @ + 1 ELSE @,
                           !.slept = IF r.next = "continue"
                                     THEN Append(@, r.sleep) ELSE @]

\* The loop ran out of attempts: return None.
LoopExhausted ==
    /\ fn = "get_workouts"
    /\ arg.attempt >= arg.max_retries
    /\ fn' = "returned"
    /\ ret' = Returned(None)
    /\ UNCHANGED arg

NextRetry == Attempt \/ LoopExhausted

SpecRetry == InitRetry /\ [][NextRetry]_vars /\ WF_vars(NextRetry)

\* The call is over.
CallOver == fn \in {"returned", "raised"}

IsStatus(outcome, codes) == "status" \in DOMAIN outcome /\ outcome.status \in codes

\* A 200 response whose body decodes.
HasBody(outcome) == IsStatus(outcome, {200}) /\ outcome.json = "body"

\* A status below 500 other than 200 and 429.
IsClientError(outcome) == IsStatus(outcome, {204, 401, 403, 404})

\* A server error, a timeout, a connection failure, or a 200 response whose
\* body fails to decode with a RequestException.
IsFailure(outcome) ==
    \/ "error" \in DOMAIN outcome
    \/ IsStatus(outcome, {500, 503})
    \/ IsStatus(outcome, {200}) /\ outcome.json = "JSONDecodeError"

\* A 429 response whose Retry-After header is absent or a non-negative
\* integer.
IsWaitedOut(outcome) ==
    /\ IsStatus(outcome, {429})
    /\ \/ "Retry-After" \notin DOMAIN outcome.headers
       \/ LET seconds == IntOfText(outcome.headers["Retry-After"])
          IN  "value" \in DOMAIN seconds /\ seconds.value >= 0

\* A 429 response whose Retry-After header is not an integer or is negative,
\* or a 200 response whose body fails to decode with a ValueError.
IsUnusable(outcome) ==
    \/ IsStatus(outcome, {429}) /\ ~IsWaitedOut(outcome)
    \/ IsStatus(outcome, {200}) /\ outcome.json = "ValueError"

\* The outcome of the last request made.
LastOutcome == arg.outcomes[Len(arg.outcomes)]

\* The call made at most max_retries requests; a request answered with a
\* body, a client error or an unusable response was the last one; a body
\* was returned; a client error raised HevyAPIError; a failure on the
\* max_retries-th attempt raised HevyAPIError and an earlier one was
\* retried; an unusable response raised ValueError; nothing else raised or
\* returned a body.
RetryOutcome ==
    /\ Len(arg.outcomes) <= arg.max_retries
    /\ \A i \in 1..Len(arg.outcomes) :
          (\/ HasBody(arg.outcomes[i])
           \/ IsClientError(arg.outcomes[i])
           \/ IsUnusable(arg.outcomes[i])) =>
              i = Len(arg.outcomes) /\ CallOver
    /\ ret = Returned(ResponseBody) <=>
          (fn = "returned" /\ arg.outcomes # <<>> /\ HasBody(LastOutcome))
    /\ ret = Raised("HevyAPIError") <=>
          /\ fn = "raised"
          /\ arg.outcomes # <<>>
          /\ \/ IsClientError(LastOutcome)
             \/ IsFailure(LastOutcome) /\ Len(arg.outcomes) = arg.max_retries
    /\ ret = Raised("ValueError") <=>
          (fn = "raised" /\ arg.outcomes # <<>> /\ IsUnusable(LastOutcome))
    /\ (arg.outcomes # <<>> /\ IsFailure(LastOutcome)
            /\ Len(arg.outcomes) < arg.max_retries) =>
          fn = "get_workouts"
    /\ fn = "raised" => ret \in {Raised("HevyAPIError"), Raised("ValueError")}

\* The call returned None.
ReturnedNone == fn = "returned" /\ ret = Returned(None)

\* The call is over after max_retries requests of which the last, if any,
\* was a 429 response that was waited out.
AttemptsRanOut ==
    /\ CallOver
    /\ Len(arg.outcomes) = arg.max_retries
    /\ (arg.outcomes # <<>> => IsWaitedOut(LastOutcome))

\* C30 as claimed: every call of get_workouts ends after at most max_retries
\* requests; a 200 returned its body at once, a 401 or 404 raised
\* HevyAPIError without a further request, a failure was retried and raised
\* HevyAPIError on the max_retries-th attempt; and a failed call never
\* returns silently: a call that returned returned the body of a 200
\* response.
C30_FailedCallNeverReturns ==
    /\ Len(arg.outcomes) <= arg.max_retries
    /\ \A i \in 1..Len(arg.outcomes) :
          IsStatus(arg.outcomes[i], {200, 401, 404}) =>
              i = Len(arg.outcomes) /\ CallOver
    /\ (arg.outcomes # <<>> /\ IsStatus(LastOutcome, {401, 404})) =>
          ret = Raised("HevyAPIError")
    /\ (arg.outcomes # <<>> /\ Len(arg.outcomes) = arg.max_retries
            /\ ("error" \in DOMAIN LastOutcome \/ IsStatus(LastOutcome, {500, 503}))) =>
          ret = Raised("HevyAPIError")
    /\ fn = "returned" =>
          /\ arg.outcomes # <<>>
          /\ IsStatus(LastOutcome, {200})
          /\ ret = Returned(ResponseBody)

\* C30: every call of get_workouts ends after at most max_retries requests:
\* a 200 whose body decodes returns it at once; a 401 or 404 (or another
\* status below 500 except 429) raises HevyAPIError without a further
\* request; server errors, timeouts, connection failures and bodies that
\* fail to decode with a RequestException are retried and raise
\* HevyAPIError on the max_retries-th attempt; a 429 whose Retry-After is
\* not a non-negative integer, or a body that fails to decode with a
\* ValueError, ends the call at once with ValueError; a call returns None
\* without raising exactly when its attempts ran out on a 429 that was
\* waited out or max_retries is 0.
C30_TerminatesWithinMaxRetries ==
    /\ [](RetryOutcome /\ (ReturnedNone <=> AttemptsRanOut))
    /\ <>CallOver

\* C30 witness: two server errors were retried with waits of 1 and 2
\* seconds and the third attempt timed out, so HevyAPIError was raised after
\* max_retries = 3 requests.
C30_Witness ==
    /\ fn = "raised"
    /\ arg.max_retries = 3
    /\ Len(arg.outcomes) = 3
    /\ IsStatus(arg.outcomes[1], {500})
    /\ IsStatus(arg.outcomes[2], {503})
    /\ arg.outcomes[3] = [error |-> "Timeout"]
    /\ arg.slept = <<1, 2>>
====
